---- MODULE Spec2Model ----
(***************************************************************************)
(* Bookkeeping backend (src/backend.py): the transaction store, the        *)
(* daily cash reconciliation report, the short/excess projection and the   *)
(* report cache in front of them.                                          *)
(*                                                                         *)
(* Dates are day numbers (1 = the earliest day of the model); str(date)    *)
(* is the ISO form of the date, whose lexicographic order is the order of  *)
(* the dates, so a date and its string are the same number here.  Amounts  *)
(* are whole numbers of the smallest currency unit.  A nullable value is   *)
(* None or Some(v).                                                        *)
(***************************************************************************)
EXTENDS Integers, Sequences, FiniteSets, TLC

\* ------------------------------------------------------------- bounds
MaxDate == 3
MaxTxns == 2
MaxTicks == 2
MaxWrites == 2

\* ------------------------------------------------- program constants
REPORT_CACHE_TTL_SEC == 300

\* ------------------------------------------------------- value sets
Dates == 1..MaxDate
TxnTypes == {"Sale", "Receipt", "Expense", "Purchase"}
PaymentModes == {"Cash", "Credit", "UPI"}
BankModes == {"Bank", "UPI", "GPay", "GPAY", "Google Pay", "GooglePay"}

None == <<"None">>
Some(v) == <<"Some", v>>
IsSome(x) == x[1] = "Some"
Val(x) == x[2]

VARIABLES
    transactions,   \* table transactions: txn_id -> row
    next_txn_id,    \* IDENTITY(1,1) of transactions.txn_id
    parties,        \* table parties: party_id -> row
    next_party_id,  \* IDENTITY(1,1) of parties.party_id
    daily_cash,     \* table daily_cash: cash_date -> cash_in_hand
    app_settings,   \* app_settings['opening_cash_seed']: None or Some(value)
    report_cache,   \* the dict report_cache: key -> [ts, data]
    now,            \* time.time()
    response,       \* what the last request returned
    history,        \* per cache key, the last read and whether the store changed since
    pc,             \* position of the concurrent reader and writer requests
    reader,         \* locals of the in-flight get_daily_summary_report
    writer,         \* locals of the in-flight mutation
    versions        \* store version bookkeeping of the concurrent requests

store == <<transactions, next_txn_id, parties, next_party_id, daily_cash, app_settings>>
conc == <<pc, reader, writer, versions>>
vars == <<transactions, next_txn_id, parties, next_party_id, daily_cash, app_settings,
          report_cache, now, response, history, pc, reader, writer, versions>>

\* ------------------------------------------------------------ helpers
RECURSIVE SetSum(_, _)
SetSum(f, S) ==
    IF S = {} THEN 0
    ELSE LET x == CHOOSE y \in S : TRUE IN f[x] + SetSum(f, S \ {x})

Min(S) == CHOOSE x \in S : \A y \in S : x <= y
Max(S) == CHOOSE x \in S : \A y \in S : x >= y

\* sorted(list of dates)
RECURSIVE sorted(_)
sorted(S) == IF S = {} THEN <<>> ELSE <<Min(S)>> \o sorted(S \ {Min(S)})

\* SUM(CASE WHEN ... THEN amount ELSE 0 END): the amounts of the rows `ids` that match
SumCase(txns, ids) == SetSum([i \in ids |-> txns[i].amount], ids)

\* ---------------------------------------------------------- the cache
\* cache_get: the payload, or None, and the dict as cache_get leaves it
cache_get_long_ttl(cache, key, t) ==
    IF key \notin DOMAIN cache
    THEN [data |-> None, cache |-> cache]
    ELSE IF t - cache[key].ts > 2 * REPORT_CACHE_TTL_SEC
         THEN [data |-> None,
               cache |-> [k \in DOMAIN cache \ {key} |-> cache[k]]]
         ELSE [data |-> Some(cache[key].data), cache |-> cache]

cache_get(cache, key, t) ==
    IF key \notin DOMAIN cache
    THEN [data |-> None, cache |-> cache]
    ELSE IF t - cache[key].ts > REPORT_CACHE_TTL_SEC
         THEN [data |-> None,
               cache |-> [k \in DOMAIN cache \ {key} |-> cache[k]]]
         ELSE [data |-> Some(cache[key].data), cache |-> cache]

cache_set(cache, key, data, t) ==
    [k \in DOMAIN cache \cup {key} |->
        IF k = key THEN [ts |-> t, data |-> data] ELSE cache[k]]

EmptyCache == [k \in {} |-> 0]

invalidate_report_cache(cache) == EmptyCache

\* ------------------------------------------------------- date ranges
Today == MaxDate

\* A request's date argument: DateStr(d) is the "%Y-%m-%d" text of day d, Garbage a
\* text strptime rejects, None a missing (or empty) argument.
DateStr(d) == <<"Str", d>>
Garbage == <<"Garbage">>

\* parse_date_str: None for a missing or unparseable value
parse_date_str(value) == IF value[1] = "Str" THEN Some(value[2]) ELSE None

resolve_date_range_unswapped(start, end, days) ==
    LET end_date == IF IsSome(parse_date_str(end)) THEN Val(parse_date_str(end)) ELSE Today
        start_date == IF IsSome(parse_date_str(start)) THEN Val(parse_date_str(start))
                      ELSE end_date - (days - 1)
    IN  <<start_date, end_date>>

resolve_date_range(start, end, days) ==
    LET end_date == IF IsSome(parse_date_str(end)) THEN Val(parse_date_str(end)) ELSE Today
        window == IF days > 1 THEN days ELSE 1
        start_date == IF IsSome(parse_date_str(start)) THEN Val(parse_date_str(start))
                      ELSE end_date - (window - 1)
    IN  IF start_date > end_date THEN <<end_date, start_date>>
        ELSE <<start_date, end_date>>

CacheKey(rng) == <<"default", "daily_summary", rng[1], rng[2]>>

\* --------------------------------------------------------- settings
get_setting(settings, default_val) ==
    IF IsSome(settings) THEN Val(settings) ELSE default_val

\* ------------------------------------------- daily cash reconciliation
InRange(d, rng) == rng[1] <= d /\ d <= rng[2]

IsCashIn(t) == t.payment_mode = "Cash" /\ t.txn_type \in {"Sale", "Receipt"}
credit_receipt_left_out(t) == FALSE
IsCreditReceipt(t) == t.payment_mode = "Credit" /\ t.txn_type = "Receipt"
IsCashExpense(t) == t.payment_mode = "Cash" /\ t.txn_type = "Expense"
IsBankIn(t) == t.payment_mode \in BankModes /\ t.txn_type \in {"Sale", "Receipt"}
IsSale(t) == t.txn_type = "Sale"

\* SUM(cash-in cases) + SUM(credit receipts), and SUM(cash expenses), over rows `ids`
cash_in_sum(txns, ids) == SumCase(txns, {i \in ids : IsCashIn(txns[i])}) + SumCase(txns, {i \in ids : IsCreditReceipt(txns[i])})
cash_expense_sum(txns, ids) == SumCase(txns, {i \in ids : IsCashExpense(txns[i])})

get_opening_cash_oldest_count(txns, dc, start_date, opening_seed) ==
    LET prior == {d \in DOMAIN dc : d < start_date}
        before == {i \in DOMAIN txns : txns[i].txn_date < start_date}
    IN  IF prior # {} THEN dc[Min(prior)]
        ELSE opening_seed + cash_in_sum(txns, before) - cash_expense_sum(txns, before)

\* SELECT TOP 1 cash_date, cash_in_hand FROM daily_cash WHERE cash_date < ?
\* ORDER BY cash_date DESC: the most recent count before start_date, or None
count_before_date(dc, start_date) ==
    LET prior == {d \in DOMAIN dc : d < start_date}
    IN  IF prior # {} THEN Some(dc[Max(prior)]) ELSE None

\* the seed plus the cash movements before start_date
movements_before_date(txns, start_date, opening_seed) ==
    LET before == {i \in DOMAIN txns : txns[i].txn_date < start_date}
    IN  opening_seed + cash_in_sum(txns, before) - cash_expense_sum(txns, before)

get_opening_cash_seed_added(txns, dc, start_date, opening_seed) ==
    IF IsSome(count_before_date(dc, start_date))
    THEN opening_seed + Val(count_before_date(dc, start_date))
    ELSE movements_before_date(txns, start_date, opening_seed)

get_opening_cash_before_date(txns, dc, start_date, opening_seed) ==
    IF IsSome(count_before_date(dc, start_date))
    THEN Val(count_before_date(dc, start_date))
    ELSE movements_before_date(txns, start_date, opening_seed)

query_dates_of_transactions(txns, dc, rng) ==
    {txns[i].txn_date : i \in {j \in DOMAIN txns : InRange(txns[j].txn_date, rng)}}

\* SELECT DISTINCT d FROM (transactions UNION daily_cash) WHERE d BETWEEN ? AND ?
query_dates(txns, dc, rng) ==
    {txns[i].txn_date : i \in {j \in DOMAIN txns : InRange(txns[j].txn_date, rng)}}
      \cup {d \in DOMAIN dc : InRange(d, rng)}

\* SELECT cash_date, cash_in_hand FROM daily_cash WHERE cash_date BETWEEN ? AND ?
query_cash_map(dc, rng) == [d \in {x \in DOMAIN dc : InRange(x, rng)} |-> dc[d]]

\* the aggregate query, GROUP BY t.txn_date, as agg_map
query_agg_map(txns, pts, rng) ==
    LET inr == {i \in DOMAIN txns : InRange(txns[i].txn_date, rng)}
        on(d) == {i \in inr : txns[i].txn_date = d}
        IsCreditSale(t) == t.txn_type = "Sale"
              /\ (pts[t.party_id].type = "Credit Customer" \/ t.payment_mode = "Credit")
        IsCreditCustReceipt(t) == t.txn_type = "Receipt"
              /\ pts[t.party_id].type = "Credit Customer"
    IN  [d \in {txns[i].txn_date : i \in inr} |->
           [total_sales |-> SumCase(txns, {i \in on(d) : IsSale(txns[i])}),
            cash_in |-> cash_in_sum(txns, on(d)),
            cash_expense |-> cash_expense_sum(txns, on(d)),
            bank |-> SumCase(txns, {i \in on(d) : IsBankIn(txns[i])}),
            credit_sales |-> SumCase(txns, {i \in on(d) : IsCreditSale(txns[i])}),
            credit_receipts |-> SumCase(txns, {i \in on(d) : IsCreditCustReceipt(txns[i])})]]

\* `if cash_in_hand:` in place of `if cash_in_hand is not None:`
summary_row_truthy(d, opening_cash, cash_map, agg_map) ==
    LET has == d \in DOMAIN agg_map
        cash_in == IF has THEN agg_map[d].cash_in ELSE 0
        cash_expense == IF has THEN agg_map[d].cash_expense ELSE 0
        computed_closing == opening_cash + cash_in - cash_expense
        cash_in_hand == IF d \in DOMAIN cash_map THEN Some(cash_map[d]) ELSE None
        counted == IsSome(cash_in_hand) /\ Val(cash_in_hand) # 0
    IN  [date |-> d,
         opening_cash |-> opening_cash,
         cash_in |-> cash_in,
         cash_expense |-> cash_expense,
         cash_needed |-> computed_closing,
         closing_cash |-> IF counted THEN Val(cash_in_hand) ELSE computed_closing,
         cash_in_hand |-> cash_in_hand,
         cash_short_excess |-> IF counted THEN Val(cash_in_hand) - computed_closing ELSE 0,
         bank |-> IF has THEN agg_map[d].bank ELSE 0,
         credit_sale |-> IF has THEN agg_map[d].credit_sales - agg_map[d].credit_receipts
                         ELSE 0,
         total_sales |-> IF has THEN agg_map[d].total_sales ELSE 0]

\* one pass of the loop `for idx, d in enumerate(dates)`
summary_row(d, opening_cash, cash_map, agg_map) ==
    LET has == d \in DOMAIN agg_map
        cash_in == IF has THEN agg_map[d].cash_in ELSE 0
        cash_expense == IF has THEN agg_map[d].cash_expense ELSE 0
        computed_closing == opening_cash + cash_in - cash_expense
        cash_in_hand == IF d \in DOMAIN cash_map THEN Some(cash_map[d]) ELSE None
    IN  [date |-> d,
         opening_cash |-> opening_cash,
         cash_in |-> cash_in,
         cash_expense |-> cash_expense,
         cash_needed |-> computed_closing,
         closing_cash |-> IF IsSome(cash_in_hand) THEN Val(cash_in_hand)
                          ELSE computed_closing,
         cash_in_hand |-> cash_in_hand,
         cash_short_excess |-> IF IsSome(cash_in_hand)
                               THEN Val(cash_in_hand) - computed_closing ELSE 0,
         bank |-> IF has THEN agg_map[d].bank ELSE 0,
         credit_sale |-> IF has THEN agg_map[d].credit_sales - agg_map[d].credit_receipts
                         ELSE 0,
         total_sales |-> IF has THEN agg_map[d].total_sales ELSE 0]

\* the carry-forward into the next date: prev_cash_in_hand if not None, else prev_closing
carry_forward_theoretical(row) == row.cash_needed

carry_forward(row) ==
    IF IsSome(row.cash_in_hand) THEN Val(row.cash_in_hand) ELSE row.cash_needed

RECURSIVE summary_loop(_, _, _, _, _, _)
summary_loop(dates, idx, opening_cash, cash_map, agg_map, summary) ==
    IF idx > Len(dates) THEN summary
    ELSE LET row == summary_row(dates[idx], opening_cash, cash_map, agg_map)
         IN  summary_loop(dates, idx + 1, carry_forward(row), cash_map, agg_map,
                          Append(summary, row))

\* sorted(summary, key=lambda x: x["date"], reverse=True)
RECURSIVE sorted_by_date_desc(_)
sorted_by_date_desc(rows) ==
    IF rows = <<>> THEN <<>>
    ELSE LET top == Max({rows[i].date : i \in DOMAIN rows})
             at == Min({i \in DOMAIN rows : rows[i].date = top})
             rest == [j \in 1..(Len(rows) - 1) |-> IF j < at THEN rows[j] ELSE rows[j + 1]]
         IN  <<rows[at]>> \o sorted_by_date_desc(rest)

\* the report built from the query results
build_summary(dates, cash_map, agg_map, opening_cash_seed) ==
    IF dates = <<>> THEN <<>>
    ELSE sorted_by_date_desc(
             summary_loop(dates, 1, opening_cash_seed, cash_map, agg_map, <<>>))

\* get_daily_summary_report past the cache: every query against one store state
compute_daily_summary(txns, pts, dc, settings, rng) ==
    LET dates == sorted(query_dates(txns, dc, rng))
    IN  IF dates = <<>> THEN <<>>
        ELSE build_summary(dates, query_cash_map(dc, rng), query_agg_map(txns, pts, rng),
                 get_opening_cash_before_date(txns, dc, rng[1], get_setting(settings, 0)))

short_excess_row_closing(row) ==
    [date |-> row.date,
     opening_cash |-> row.opening_cash,
     cash_in |-> row.cash_in,
     cash_expense |-> row.cash_expense,
     cash_needed |-> row.closing_cash,
     cash_in_hand |-> row.cash_in_hand,
     cash_short_excess |-> row.cash_short_excess]

\* the short-excess projection of one daily-summary row
short_excess_row(row) ==
    [date |-> row.date,
     opening_cash |-> row.opening_cash,
     cash_in |-> row.cash_in,
     cash_expense |-> row.cash_expense,
     cash_needed |-> row.cash_needed,
     cash_in_hand |-> row.cash_in_hand,
     cash_short_excess |-> row.cash_short_excess]

\* ------------------------------------------------------------ parties
\* str.lower() on the characters party names are made of here
Lower(c) == CASE c = "A" -> "a" [] c = "B" -> "b" [] c = "C" -> "c" [] OTHER -> c

\* name.lower().replace(" ", "_")
normalize(name) ==
    [i \in DOMAIN name |-> IF Lower(name[i]) = " " THEN "_" ELSE Lower(name[i])]

\* SELECT party_id FROM parties WHERE normalized_name=?
party_by_normalized(pts, norm) == {p \in DOMAIN pts : pts[p].normalized_name = norm}

\* ------------------------------------------------- responses, history
NoKey == <<>>
Resp(op, status) == [op |-> op, status |-> status, payload |-> <<>>, key |-> NoKey]
Ok(op) == Resp(op, "ok")
Error(op) == Resp(op, "error")

\* What a report request returned, with what it met: the time of the request, the
\* cache entry cache_get found under the key (None if there was none) and the last
\* read of that key before this one (None if there was none).
ReadResp(op, payload, hit, key, at, cached, prev) ==
    [op |-> op, status |-> "ok", payload |-> payload, key |-> key, hit |-> hit,
     at |-> at, cached |-> cached, prev |-> prev]

\* history[k]: the payload the last read of key k returned, the computed_at of the
\* entry behind it, and what happened to the store since: changed by any write,
\* mutated by a successful add/edit/delete, count upsert or seed change.
NoHistory == [k \in {} |-> 0]

store_written(h, listed) ==
    [k \in DOMAIN h |-> [h[k] EXCEPT !.changed = TRUE, !.mutated = @ \/ listed]]

read_recorded(h, key, payload, computed_at) ==
    [k \in DOMAIN h \cup {key} |->
        IF k = key
        THEN [payload |-> payload, computed_at |-> computed_at,
              changed |-> FALSE, mutated |-> FALSE]
        ELSE h[k]]

Lookup(f, k) == IF k \in DOMAIN f THEN Some(f[k]) ELSE None

\* ----------------------------------------------- the report requests
\* get_daily_summary_report: what it returns and the cache it leaves
daily_summary_call(start, end, days) ==
    LET rng == resolve_date_range(start, end, days)
        key == CacheKey(rng)
        got == cache_get(report_cache, key, now)
        summary == compute_daily_summary(transactions, parties, daily_cash,
                                         app_settings, rng)
    IN  IF IsSome(got.data)
        THEN [payload |-> Val(got.data), hit |-> TRUE, key |-> key, cache |-> got.cache]
        ELSE [payload |-> summary, hit |-> FALSE, key |-> key,
              cache |-> cache_set(got.cache, key, summary, now)]

get_daily_summary_report(start, end, days) ==
    LET r == daily_summary_call(start, end, days)
    IN  /\ report_cache' = r.cache
        /\ response' = ReadResp("daily_summary", r.payload, r.hit, r.key, now,
                                Lookup(report_cache, r.key), Lookup(history, r.key))
        /\ history' = read_recorded(history, r.key, r.payload, r.cache[r.key].ts)
        /\ UNCHANGED <<store, now, conc>>

get_short_excess_report(start, end, days) ==
    LET r == daily_summary_call(start, end, days)
        data == r.payload
    IN  /\ report_cache' = r.cache
        /\ response' = ReadResp("short_excess",
                                [i \in DOMAIN data |-> short_excess_row(data[i])],
                                r.hit, r.key, now,
                                Lookup(report_cache, r.key), Lookup(history, r.key))
        /\ history' = read_recorded(history, r.key, r.payload, r.cache[r.key].ts)
        /\ UNCHANGED <<store, now, conc>>

\* --------------------------------------------------------- mutations
\* log_audit: the audit row is written (audit_logs is outside this model) and the
\* cache cleared once more
log_audit(cache) == invalidate_report_cache(cache)

TxnRow(date, bill_no, party_id, txn_type, mode, amount) ==
    [txn_date |-> date, bill_no |-> bill_no, party_id |-> party_id,
     txn_type |-> txn_type, payment_mode |-> mode, amount |-> amount]

\* INSERT INTO transactions (...) VALUES (...)
insert_transaction(row) ==
    /\ transactions' = [i \in DOMAIN transactions \cup {next_txn_id} |->
                           IF i = next_txn_id THEN row ELSE transactions[i]]
    /\ next_txn_id' = next_txn_id + 1

bank_count_unchecked(pts) == 0

\* SELECT COUNT(*) FROM parties WHERE type = 'Bank'
bank_count(pts) == Cardinality({q \in DOMAIN pts : pts[q].type = "Bank"})

unique_not_enforced(pts, norm, party_id) == FALSE

\* normalized_name NVARCHAR(255) UNIQUE: a row other than party_id has the value
unique_violation(pts, norm, party_id) ==
    \E q \in DOMAIN pts : q # party_id /\ pts[q].normalized_name = norm

\* create_party: one Bank at most, then the INSERT, which the UNIQUE constraint on
\* normalized_name may reject
create_party(name, ptype, credit) ==
    LET normalized == normalize(name)
        row == [name |-> name, normalized_name |-> normalized, type |-> ptype,
                credit_allowed |-> credit]
    IN  /\ IF (ptype = "Bank" /\ bank_count(parties) > 0)
              \/ unique_violation(parties, normalized, 0)
           THEN /\ response' = [Error("create_party") EXCEPT !.key = <<name, ptype>>]
                /\ UNCHANGED <<parties, next_party_id, history>>
           ELSE /\ parties' = [p \in DOMAIN parties \cup {next_party_id} |->
                                  IF p = next_party_id THEN row ELSE parties[p]]
                /\ next_party_id' = next_party_id + 1
                /\ response' = [Ok("create_party") EXCEPT !.key = <<name, ptype>>]
                /\ history' = store_written(history, FALSE)
        /\ UNCHANGED <<transactions, next_txn_id, daily_cash, app_settings,
                       report_cache, now, conc>>

\* rename_party: the party is found by the normalized old name, the new normalized
\* name must not be another party's, then name and normalized_name are rewritten
\* and the audit row written
rename_party(old_name, new_name) ==
    LET found == party_by_normalized(parties, normalize(old_name))
        party_id == CHOOSE q \in found : TRUE
        new_norm == normalize(new_name)
    IN  /\ IF found = {}
           THEN /\ response' = [Error("rename_party") EXCEPT !.key = <<old_name, new_name>>]
                /\ UNCHANGED <<parties, report_cache, history>>
           ELSE IF Cardinality({q \in DOMAIN parties :
                                   parties[q].normalized_name = new_norm /\ q # party_id}) > 0
                     \/ unique_violation(parties, new_norm, party_id)
           THEN /\ response' = [Error("rename_party") EXCEPT !.key = <<old_name, new_name>>]
                /\ UNCHANGED <<parties, report_cache, history>>
           ELSE /\ parties' = [parties EXCEPT ![party_id].name = new_name,
                                              ![party_id].normalized_name = new_norm]
                /\ report_cache' = log_audit(report_cache)
                /\ response' = [Ok("rename_party") EXCEPT !.key = <<old_name, new_name>>]
                /\ history' = store_written(history, FALSE)
        /\ UNCHANGED <<transactions, next_txn_id, next_party_id, daily_cash,
                       app_settings, now, conc>>

\* add_transaction: the store write
add_transaction_write(date, bill_no, party, txn_type, mode, amount) ==
    LET found == party_by_normalized(parties, normalize(party))
        party_id == CHOOSE p \in found : TRUE
    IN  /\ insert_transaction(TxnRow(date, bill_no, party_id, txn_type, mode, amount))
        /\ UNCHANGED <<parties, next_party_id, daily_cash, app_settings>>

add_transaction(date, bill_no, party, txn_type, mode, amount) ==
    /\ IF party_by_normalized(parties, normalize(party)) = {}
       THEN /\ response' = [Error("add_transaction") EXCEPT !.key = <<party>>]
            /\ UNCHANGED <<store, report_cache, history>>
       ELSE /\ add_transaction_write(date, bill_no, party, txn_type, mode, amount)
            /\ report_cache' = invalidate_report_cache(report_cache)
            /\ response' = [Ok("add_transaction") EXCEPT !.key = <<party>>]
            /\ history' = store_written(history, TRUE)
    /\ UNCHANGED <<now, conc>>

allowed_fields == {"txn_date", "bill_no", "txn_type", "payment_mode", "amount"}

edit_transaction_dangling_clear(txn_id, field, new_value) ==
    /\ IF field \notin allowed_fields \/ txn_id \notin DOMAIN transactions
       THEN /\ response' = [Error("edit_transaction") EXCEPT !.key = <<txn_id, field>>]
            /\ report_cache' = invalidate_report_cache(report_cache)
            /\ UNCHANGED <<store, history>>
       ELSE /\ transactions' = [transactions EXCEPT ![txn_id][field] = new_value]
            /\ UNCHANGED <<next_txn_id, parties, next_party_id, daily_cash, app_settings>>
            /\ report_cache' = log_audit(invalidate_report_cache(report_cache))
            /\ response' = [Ok("edit_transaction") EXCEPT !.key = <<txn_id, field>>]
            /\ history' = store_written(history, TRUE)
    /\ UNCHANGED <<now, conc>>

\* UPDATE transactions SET {field}=? WHERE txn_id=?
edit_transaction_write(txn_id, field, new_value) ==
    /\ transactions' = [transactions EXCEPT ![txn_id][field] = new_value]
    /\ UNCHANGED <<next_txn_id, parties, next_party_id, daily_cash, app_settings>>

edit_transaction(txn_id, field, new_value) ==
    /\ IF field \notin allowed_fields \/ txn_id \notin DOMAIN transactions
       THEN /\ response' = [Error("edit_transaction") EXCEPT !.key = <<txn_id, field>>]
            /\ UNCHANGED <<store, report_cache, history>>
       ELSE /\ edit_transaction_write(txn_id, field, new_value)
            /\ report_cache' = log_audit(invalidate_report_cache(report_cache))
            /\ response' = [Ok("edit_transaction") EXCEPT !.key = <<txn_id, field>>]
            /\ history' = store_written(history, TRUE)
    /\ UNCHANGED <<now, conc>>

\* DELETE FROM transactions WHERE txn_id=?
delete_transaction_write(txn_id) ==
    /\ transactions' = [i \in DOMAIN transactions \ {txn_id} |-> transactions[i]]
    /\ UNCHANGED <<next_txn_id, parties, next_party_id, daily_cash, app_settings>>

delete_transaction(txn_id) ==
    /\ IF txn_id \notin DOMAIN transactions
       THEN /\ response' = [Error("delete_transaction") EXCEPT !.key = <<txn_id>>]
            /\ UNCHANGED <<store, report_cache, history>>
       ELSE /\ delete_transaction_write(txn_id)
            /\ report_cache' = log_audit(invalidate_report_cache(report_cache))
            /\ response' = [Ok("delete_transaction") EXCEPT !.key = <<txn_id>>]
            /\ history' = store_written(history, TRUE)
    /\ UNCHANGED <<now, conc>>

\* set_cash_in_hand: UPDATE the date's row if it exists, else INSERT it
set_cash_in_hand_write(date, cash_in_hand) ==
    /\ daily_cash' = [d \in DOMAIN daily_cash \cup {date} |->
                         IF d = date THEN cash_in_hand ELSE daily_cash[d]]
    /\ UNCHANGED <<transactions, next_txn_id, parties, next_party_id, app_settings>>

set_cash_in_hand(date, cash_in_hand) ==
    /\ set_cash_in_hand_write(date, cash_in_hand)
    /\ report_cache' = log_audit(invalidate_report_cache(report_cache))
    /\ response' = Ok("set_cash_in_hand")
    /\ history' = store_written(history, TRUE)
    /\ UNCHANGED <<now, conc>>

\* set_setting("opening_cash_seed", amount)
set_setting(amount) ==
    /\ app_settings' = Some(amount)
    /\ UNCHANGED <<transactions, next_txn_id, parties, next_party_id, daily_cash>>

set_opening_cash(amount) ==
    /\ set_setting(amount)
    /\ report_cache' = log_audit(invalidate_report_cache(report_cache))
    /\ response' = Ok("set_opening_cash")
    /\ history' = store_written(history, TRUE)
    /\ UNCHANGED <<now, conc>>

\* str.title() on the type and mode strings of the model
Title(value) ==
    CASE value \in {"UPI", "upi"} -> "Upi"
      [] value \in {"GPay", "GPAY", "gpay"} -> "Gpay"
      [] value = "GooglePay" -> "Googlepay"
      [] value \in {"SALE", "sale"} -> "Sale"
      [] value \in {"CASH", "cash"} -> "Cash"
      [] value \in {"CREDIT", "credit"} -> "Credit"
      [] OTHER -> value

\* import_transactions, for a file of one row.  A known party gets the transaction.
\* An unknown party is inserted (type Customer, credit allowed) and the row then
\* fails on cursor.lastrowid, which a pyodbc cursor does not have: the row is
\* reported as failed and no transaction is inserted.  The cache is not touched.
import_transactions(date, bill_no, party, txn_type, mode, amount) ==
    LET norm == normalize(party)
        found == party_by_normalized(parties, norm)
        pid == CHOOSE p \in found : TRUE
        row == [name |-> party, normalized_name |-> norm, type |-> "Customer",
                credit_allowed |-> TRUE]
    IN  /\ IF found # {}
           THEN /\ insert_transaction(TxnRow(date, bill_no, pid, Title(txn_type),
                                             Title(mode), amount))
                /\ UNCHANGED <<parties, next_party_id>>
           ELSE /\ parties' = [p \in DOMAIN parties \cup {next_party_id} |->
                                  IF p = next_party_id THEN row ELSE parties[p]]
                /\ next_party_id' = next_party_id + 1
                /\ UNCHANGED <<transactions, next_txn_id>>
        /\ response' = Ok("import")
        /\ history' = store_written(history, FALSE)
        /\ UNCHANGED <<daily_cash, app_settings, report_cache, now, conc>>

\* ------------------------------------------------------------- time
\* The wall clock moves between requests, by half the TTL or a second more, so that
\* an entry is read at the age of exactly the TTL and one second past it.
TickSteps == {REPORT_CACHE_TTL_SEC \div 2, REPORT_CACHE_TTL_SEC \div 2 + 1}
MaxTime == MaxTicks * (REPORT_CACHE_TTL_SEC \div 2 + 1)

Tick(d) ==
    /\ now + d <= MaxTime
    /\ now' = now + d
    /\ UNCHANGED <<store, report_cache, response, history, conc>>

\* ------------------------------------------------------ input sets
\* (txn_type, payment_mode) pairs: the four that move cash and four that do not
TxnKinds == {<<"Sale", "Cash">>, <<"Receipt", "Cash">>, <<"Receipt", "Credit">>,
             <<"Expense", "Cash">>, <<"Sale", "Credit">>, <<"Purchase", "Cash">>,
             <<"Sale", "UPI">>, <<"Expense", "Credit">>}
Amounts == {2}
SeedValues == {5}
\* the count an operator records for a date: nothing in hand on day 2, 3 otherwise
CountOn(d) == IF d = 2 THEN 0 ELSE 3
NameA == <<"A">>
NameB == <<"B", " ", "b">>

Idle == [state |-> "idle"]
NoVersions == [store |-> 0, returned |-> 0, origin |-> [k \in {} |-> 0]]

\* report requests: the whole span, its tail given end first, one day, and the
\* default window of one day ending today
ReportArgs ==
    {<<DateStr(1), DateStr(MaxDate), 30>>, <<DateStr(MaxDate), DateStr(2), 30>>,
     <<DateStr(2), DateStr(2), 30>>, <<None, Garbage, 0>>}

\* ------------------------------------------------ SpecReport: the reports
\* The reports as functions of the store: any store of up to MaxTxns transactions
\* over the dates of the model, with or without counts and seed, then the report
\* requests.
ReportParties ==
    [p \in 1..2 |->
        IF p = 1
        THEN [name |-> NameA, normalized_name |-> normalize(NameA), type |-> "Customer",
              credit_allowed |-> FALSE]
        ELSE [name |-> NameB, normalized_name |-> normalize(NameB),
              type |-> "Credit Customer", credit_allowed |-> TRUE]]

\* the credit customer buys and pays on credit, the other party does the rest
ReportRows ==
    {TxnRow(d, "", IF k[2] = "Credit" THEN 2 ELSE 1, k[1], k[2], a) :
        d \in Dates, k \in TxnKinds, a \in Amounts}

InitReport ==
    /\ \E n \in 0..MaxTxns : transactions \in [1..n -> ReportRows]
    /\ next_txn_id = Cardinality(DOMAIN transactions) + 1
    /\ parties = ReportParties
    /\ next_party_id = 3
    /\ \E D \in SUBSET Dates : daily_cash = [d \in D |-> CountOn(d)]
    /\ app_settings \in {None} \cup {Some(v) : v \in SeedValues}
    /\ report_cache = EmptyCache
    /\ now = 0
    /\ response = Ok("none")
    /\ history = NoHistory
    /\ pc = [reader |-> "idle", writer |-> "idle"]
    /\ reader = Idle
    /\ writer = Idle
    /\ versions = NoVersions

\* one cached range at a time
MaxCached == 1
CacheRoom(a) ==
    \/ CacheKey(resolve_date_range(a[1], a[2], a[3])) \in DOMAIN report_cache
    \/ Cardinality(DOMAIN report_cache) < MaxCached

DailySummaryRequest == \E a \in ReportArgs :
    CacheRoom(a) /\ get_daily_summary_report(a[1], a[2], a[3])
ShortExcessRequest == \E a \in ReportArgs :
    CacheRoom(a) /\ get_short_excess_report(a[1], a[2], a[3])

NextReport == DailySummaryRequest \/ ShortExcessRequest

SpecReport == InitReport /\ [][NextReport]_vars

\* ------------------------------------------------ Spec: the requests in turn
\* The service after init_db: empty tables, no seed, an empty cache.  Requests are
\* served one at a time, each handler from start to return, and the clock moves
\* between them.
Init ==
    /\ transactions = [i \in {} |-> 0]
    /\ next_txn_id = 1
    /\ parties = [p \in {} |-> 0]
    /\ next_party_id = 1
    /\ daily_cash = [d \in {} |-> 0]
    /\ app_settings = None
    /\ report_cache = EmptyCache
    /\ now = 0
    /\ response = Ok("none")
    /\ history = NoHistory
    /\ pc = [reader |-> "idle", writer |-> "idle"]
    /\ reader = Idle
    /\ writer = Idle
    /\ versions = NoVersions

\* the requests of the model: one range, up to MaxInserts sales for cash, an edit of
\* the amount and one of a field that is not whitelisted
MaxInserts == 1
WholeSpan == <<DateStr(1), DateStr(MaxDate), 30>>
EditedAmount == 3
Edits == {<<"amount", EditedAmount>>, <<"party_id", 1>>}

CreateParty == create_party(NameA, "Customer", FALSE)

AddTransaction == \E a \in Amounts :
    /\ next_txn_id <= MaxInserts
    /\ add_transaction(1, "", NameA, "Sale", "Cash", a)

EditTransaction == \E i \in 1..MaxInserts, e \in Edits : edit_transaction(i, e[1], e[2])

DeleteTransaction == \E i \in 1..MaxInserts : delete_transaction(i)

SetCashInHand == set_cash_in_hand(2, CountOn(2))

SetOpeningCash == \E v \in SeedValues : set_opening_cash(v)

ImportTransactions == \E name \in {NameA, NameB}, a \in Amounts :
    /\ next_txn_id <= MaxInserts
    /\ next_party_id <= 2
    /\ import_transactions(1, "", name, "Sale", "Cash", a)

DailySummary == get_daily_summary_report(WholeSpan[1], WholeSpan[2], WholeSpan[3])

ShortExcess == get_short_excess_report(WholeSpan[1], WholeSpan[2], WholeSpan[3])

Clock == \E d \in TickSteps : Tick(d)

Next ==
    \/ CreateParty
    \/ AddTransaction
    \/ EditTransaction
    \/ DeleteTransaction
    \/ SetCashInHand
    \/ SetOpeningCash
    \/ ImportTransactions
    \/ DailySummary
    \/ ShortExcess
    \/ Clock

Spec == Init /\ [][Next]_vars

\* ------------------------------------- SpecConc: a read beside a mutation
\* The endpoints are plain functions, which the server runs on worker threads: a
\* daily-summary request and a mutation run side by side, and nothing guards
\* report_cache.  Each statement that touches the store or the cache is a step.
\* versions counts the store's writes: store is the number applied, returned the
\* number of the last write whose request has returned success, origin[k] the number
\* the store had when the reader behind entry k ran its first query.

\* the steps of a mutation after its lookups, in the order of the handler: the
\* write, invalidate_report_cache(), log_audit(...) where the handler calls it, return
mutation_steps_clear_first(op) ==
    IF op = "add_transaction" THEN <<"clear", "write", "return">>
    ELSE <<"clear", "write", "audit", "return">>

mutation_steps(op) ==
    IF op = "add_transaction" THEN <<"write", "clear", "return">>
    ELSE <<"write", "clear", "audit", "return">>

\* the lookups a handler makes before it writes
request_valid(req) ==
    CASE req.op = "add_transaction" ->
            party_by_normalized(parties, normalize(req.party)) # {}
      [] req.op = "edit_transaction" ->
            req.field \in allowed_fields /\ req.txn_id \in DOMAIN transactions
      [] req.op = "delete_transaction" -> req.txn_id \in DOMAIN transactions
      [] OTHER -> TRUE

request_write(req) ==
    \/ /\ req.op = "add_transaction"
       /\ add_transaction_write(req.date, "", req.party, req.txn_type, req.mode, req.amount)
    \/ /\ req.op = "edit_transaction"
       /\ edit_transaction_write(req.txn_id, req.field, req.new_value)
    \/ /\ req.op = "delete_transaction"
       /\ delete_transaction_write(req.txn_id)
    \/ /\ req.op = "set_cash_in_hand"
       /\ set_cash_in_hand_write(req.date, req.cash_in_hand)
    \/ /\ req.op = "set_opening_cash"
       /\ set_setting(req.amount)

origin_kept(cache) == [k \in DOMAIN versions.origin \cap DOMAIN cache |-> versions.origin[k]]

writer_advance(w) ==
    /\ writer' = [w EXCEPT !.i = @ + 1]
    /\ pc' = [pc EXCEPT !.writer = mutation_steps(w.req.op)[w.i + 1]]

writer_begin(req) ==
    /\ pc.writer = "idle"
    /\ versions.store < MaxWrites
    /\ IF request_valid(req)
       THEN /\ writer' = [req |-> req, status |-> "running", i |-> 1, version |-> 0,
                          wrote |-> FALSE, cleared_before |-> FALSE,
                          cleared_after |-> FALSE, emptied |-> FALSE, dropped |-> FALSE]
            /\ pc' = [pc EXCEPT !.writer = mutation_steps(req.op)[1]]
            /\ UNCHANGED response
       ELSE /\ writer' = [req |-> req, status |-> "error"]
            /\ response' = Error(req.op)
            /\ UNCHANGED pc
    /\ UNCHANGED <<store, report_cache, now, history, reader, versions>>

writer_write ==
    /\ pc.writer = "write"
    /\ request_write(writer.req)
    /\ versions' = [versions EXCEPT !.store = @ + 1]
    /\ writer_advance([writer EXCEPT !.wrote = TRUE, !.version = versions.store + 1])
    /\ UNCHANGED <<report_cache, now, response, history, reader>>

writer_cleared(w, cache) ==
    [w EXCEPT !.cleared_before = @ \/ ~ w.wrote,
              !.cleared_after = @ \/ w.wrote,
              !.emptied = (cache = EmptyCache),
              !.dropped = @ \/ report_cache # EmptyCache]

writer_clear ==
    /\ pc.writer = "clear"
    /\ report_cache' = invalidate_report_cache(report_cache)
    /\ versions' = [versions EXCEPT !.origin = origin_kept(report_cache')]
    /\ writer_advance(writer_cleared(writer, report_cache'))
    /\ UNCHANGED <<store, now, response, history, reader>>

writer_audit ==
    /\ pc.writer = "audit"
    /\ report_cache' = log_audit(report_cache)
    /\ versions' = [versions EXCEPT !.origin = origin_kept(report_cache')]
    /\ writer_advance(writer_cleared(writer, report_cache'))
    /\ UNCHANGED <<store, now, response, history, reader>>

writer_return ==
    /\ pc.writer = "return"
    /\ response' = Ok(writer.req.op)
    /\ writer' = [writer EXCEPT !.status = "ok"]
    /\ versions' = [versions EXCEPT !.returned = writer.version]
    /\ pc' = [pc EXCEPT !.writer = "idle"]
    /\ UNCHANGED <<store, report_cache, now, history, reader>>

\* get_daily_summary_report, statement by statement
EmptyMap == [d \in {} |-> 0]

reader_start(start, end, days) ==
    LET rng == resolve_date_range(start, end, days)
        key == CacheKey(rng)
        got == cache_get(report_cache, key, now)
    IN  /\ pc.reader = "idle"
        /\ report_cache' = got.cache
        /\ versions' = [versions EXCEPT !.origin = origin_kept(got.cache)]
        /\ IF IsSome(got.data)
           THEN /\ response' = ReadResp("daily_summary", Val(got.data), TRUE, key, now,
                                        Lookup(report_cache, key), None)
                /\ UNCHANGED <<reader, pc>>
           ELSE /\ reader' = [rng |-> rng, key |-> key,
                              cached |-> Lookup(report_cache, key),
                              dates |-> <<>>, cash_map |-> EmptyMap, agg_map |-> EmptyMap,
                              opening_seed |-> 0, opening_cash_seed |-> 0, version |-> 0]
                /\ pc' = [pc EXCEPT !.reader = "dates"]
                /\ UNCHANGED response
        /\ UNCHANGED <<store, now, history, writer>>

reader_step(locals, position) ==
    /\ reader' = locals
    /\ pc' = [pc EXCEPT !.reader = position]
    /\ UNCHANGED <<store, report_cache, now, response, history, writer, versions>>

reader_dates ==
    LET dates == sorted(query_dates(transactions, daily_cash, reader.rng))
    IN  /\ pc.reader = "dates"
        /\ reader_step([reader EXCEPT !.dates = dates, !.version = versions.store],
                       IF dates = <<>> THEN "set" ELSE "cash")

reader_cash ==
    /\ pc.reader = "cash"
    /\ reader_step([reader EXCEPT !.cash_map = query_cash_map(daily_cash, reader.rng)],
                   "agg")

reader_agg ==
    /\ pc.reader = "agg"
    /\ reader_step([reader EXCEPT
                       !.agg_map = query_agg_map(transactions, parties, reader.rng)],
                   "seed")

reader_seed ==
    /\ pc.reader = "seed"
    /\ reader_step([reader EXCEPT !.opening_seed = get_setting(app_settings, 0)], "count")

reader_count ==
    LET row == count_before_date(daily_cash, reader.rng[1])
    IN  /\ pc.reader = "count"
        /\ IF IsSome(row)
           THEN reader_step([reader EXCEPT !.opening_cash_seed = Val(row)], "set")
           ELSE reader_step(reader, "moves")

reader_moves ==
    /\ pc.reader = "moves"
    /\ reader_step([reader EXCEPT !.opening_cash_seed =
                       movements_before_date(transactions, reader.rng[1],
                                             reader.opening_seed)],
                   "set")

reader_set ==
    LET summary == build_summary(reader.dates, reader.cash_map, reader.agg_map,
                                 reader.opening_cash_seed)
    IN  /\ pc.reader = "set"
        /\ report_cache' = cache_set(report_cache, reader.key, summary, now)
        /\ versions' = [versions EXCEPT !.origin =
               [k \in DOMAIN versions.origin \cup {reader.key} |->
                   IF k = reader.key THEN reader.version ELSE versions.origin[k]]]
        /\ response' = ReadResp("daily_summary", summary, FALSE, reader.key, now,
                                reader.cached, None)
        /\ reader' = Idle
        /\ pc' = [pc EXCEPT !.reader = "idle"]
        /\ UNCHANGED <<store, now, history, writer>>

\* A store with one party and one cash sale on day 1; the reader asks for the days
\* after it, so that the sale and a count on day 1 reach the report through the
\* opening cash.
InitConc ==
    /\ transactions = [i \in {1} |-> TxnRow(1, "", 1, "Sale", "Cash", 2)]
    /\ next_txn_id = 2
    /\ parties = [p \in {1} |-> [name |-> NameA, normalized_name |-> normalize(NameA),
                                type |-> "Customer", credit_allowed |-> FALSE]]
    /\ next_party_id = 2
    /\ daily_cash = [d \in {} |-> 0]
    /\ app_settings = None
    /\ report_cache = EmptyCache
    /\ now = 0
    /\ response = Ok("none")
    /\ history = NoHistory
    /\ pc = [reader |-> "idle", writer |-> "idle"]
    /\ reader = Idle
    /\ writer = Idle
    /\ versions = NoVersions

LaterDays == <<DateStr(2), DateStr(MaxDate), 30>>

Requests ==
    {[op |-> "add_transaction", date |-> 2, party |-> NameA, txn_type |-> "Sale",
      mode |-> "Cash", amount |-> 2],
     [op |-> "add_transaction", date |-> 2, party |-> NameB, txn_type |-> "Sale",
      mode |-> "Cash", amount |-> 2],
     [op |-> "edit_transaction", txn_id |-> 1, field |-> "amount",
      new_value |-> EditedAmount],
     [op |-> "edit_transaction", txn_id |-> 1, field |-> "party_id", new_value |-> 1],
     [op |-> "delete_transaction", txn_id |-> 1],
     [op |-> "set_cash_in_hand", date |-> 1, cash_in_hand |-> CountOn(1)],
     [op |-> "set_opening_cash", amount |-> 5]}

WriterBegin == \E req \in Requests : writer_begin(req)
ReaderStart == \E a \in {WholeSpan, LaterDays} : reader_start(a[1], a[2], a[3])

NextConc ==
    \/ WriterBegin
    \/ writer_write
    \/ writer_clear
    \/ writer_audit
    \/ writer_return
    \/ ReaderStart
    \/ reader_dates
    \/ reader_cash
    \/ reader_agg
    \/ reader_seed
    \/ reader_count
    \/ reader_moves
    \/ reader_set

SpecConc == InitConc /\ [][NextConc]_vars

\* ------------------------------------ SpecFault: a failing persistence step
\* SpecConc with a connection that can fail under the mutation: on the write
\* statement, which then is not applied, or after it on conn.close(), when
\* autocommit has applied the write already.  The handler's except branch answers
\* with an error either way.  A failure inside log_audit is swallowed there and is
\* no failure of the mutation.
writer_fault ==
    /\ pc.writer \in {"write", "clear"}
    /\ writer' = [writer EXCEPT !.status = "failed"]
    /\ response' = Error(writer.req.op)
    /\ pc' = [pc EXCEPT !.writer = "idle"]
    /\ UNCHANGED <<store, report_cache, now, history, reader, versions>>

NextFault == NextConc \/ writer_fault

SpecFault == InitConc /\ [][NextFault]_vars

\* ------------------------------------------------------ the party ledger
\* The rows of a SELECT ... ORDER BY t.txn_date over the transactions ids: every
\* arrangement in which the dates do not decrease (rows of one date come in an
\* order the query does not fix).
Orderings(txns, ids) ==
    {data \in [1..Cardinality(ids) -> ids] :
        /\ \A i, j \in DOMAIN data : i # j => data[i] # data[j]
        /\ \A i, j \in DOMAIN data : i < j => txns[data[i]].txn_date <= txns[data[j]].txn_date}

\* a date parameter is bound to a DATE column: a string that is no date fails the query
date_param_fails(value) == value # None /\ parse_date_str(value) = None

\* ... WHERE party_id=? [AND txn_date >= ?] [AND txn_date <= ?]
ledger_filter(txns, party_id, start, end) ==
    {i \in DOMAIN txns :
        /\ txns[i].party_id = party_id
        /\ start # None => txns[i].txn_date >= Val(parse_date_str(start))
        /\ end # None => txns[i].txn_date <= Val(parse_date_str(end))}

ledger_sign_receipt_adds(txn_type) == IF txn_type \in {"Sale", "Receipt"} THEN 1 ELSE -1

\* Sale adds to the balance; Receipt, Sale Return and every other type take off it
ledger_sign(txn_type) == IF txn_type = "Sale" THEN 1 ELSE -1

RECURSIVE ledger_loop(_, _, _, _, _)
ledger_loop(txns, data, idx, balance, ledger) ==
    IF idx > Len(data) THEN ledger
    ELSE LET t == txns[data[idx]]
             b == balance + ledger_sign(t.txn_type) * t.amount
         IN  ledger_loop(txns, data, idx + 1, b,
                 Append(ledger, [id |-> data[idx], date |-> t.txn_date,
                                 bill_no |-> t.bill_no, type |-> t.txn_type,
                                 mode |-> t.payment_mode, amount |-> t.amount,
                                 balance |-> b]))

ledger_of_missing_party_404 == [status |-> "error", payload |-> <<>>]

\* "If party doesn't exist, return empty ledger instead of crashing"
ledger_of_missing_party == [status |-> "ok", payload |-> <<>>]

\* str.lower() on a name
name_lower(name) == [i \in DOMAIN name |-> Lower(name[i])]

\* SELECT party_id FROM parties WHERE normalized_name=? with the request's string
\* as it is: the database compares it under its collation, which takes a letter in
\* either case (ci) or not
ledger_party(pts, party, ci) ==
    {p \in DOMAIN pts :
        IF ci THEN name_lower(pts[p].normalized_name) = name_lower(party)
        ELSE pts[p].normalized_name = party}

\* a party the lookup does not find gives the empty list; a failing query is caught
\* and answered with the empty list
get_ledger_result(pts, txns, party, start, end, data, ci) ==
    IF ledger_party(pts, party, ci) = {} THEN ledger_of_missing_party
    ELSE IF date_param_fails(start) \/ date_param_fails(end)
         THEN [status |-> "ok", payload |-> <<>>]
         ELSE [status |-> "ok", payload |-> ledger_loop(txns, data, 1, 0, <<>>)]

ledger_ids(pts, txns, party, start, end, ci) ==
    IF ledger_party(pts, party, ci) = {}
         \/ date_param_fails(start) \/ date_param_fails(end)
    THEN {}
    ELSE ledger_filter(txns, CHOOSE q \in ledger_party(pts, party, ci) : TRUE,
                       start, end)

get_ledger(party, start, end) ==
    \E ci \in BOOLEAN :
      \E data \in Orderings(transactions,
                            ledger_ids(parties, transactions, party, start, end, ci)) :
        LET r == get_ledger_result(parties, transactions, party, start, end, data, ci)
        IN  /\ response' = [op |-> "ledger", status |-> r.status, payload |-> r.payload,
                            key |-> <<party, start, end>>]
            /\ UNCHANGED <<store, report_cache, now, history, conc>>

\* ------------------------------------------------- the account reports
\* str.lower() on the payment-mode strings of the model
ModeLower(m) ==
    CASE m \in {"Bank", "BANK", "bank"} -> "bank"
      [] m \in {"UPI", "Upi", "upi"} -> "upi"
      [] m \in {"GPay", "GPAY", "Gpay", "gpay"} -> "gpay"
      [] m \in {"Cash", "cash"} -> "cash"
      [] m \in {"Credit", "credit"} -> "credit"
      [] OTHER -> m

\* payment_mode = ? as the database compares strings: by its collation, which is
\* case-insensitive (ci) by default and case-sensitive where set up so
mode_equal(a, b, ci) == IF ci THEN ModeLower(a) = ModeLower(b) ELSE a = b

mode_filter_exact(txns, mode, ci) ==
    {i \in DOMAIN txns : mode_equal(txns[i].payment_mode, mode, ci)}

\* the WHERE clause of get_mode_report: the selector "bank" in any case takes the
\* whole bank class, any other selector the rows of that one payment mode
mode_filter(txns, mode, ci) ==
    IF ModeLower(mode) = "bank"
    THEN {i \in DOMAIN txns : txns[i].payment_mode \in BankModes}
    ELSE {i \in DOMAIN txns : mode_equal(txns[i].payment_mode, mode, ci)}

mode_row_all_debit(t, party_name, balance) ==
    [date |-> t.txn_date, bill_no |-> t.bill_no, party |-> party_name,
     type |-> t.txn_type, debit |-> t.amount, credit |-> 0,
     balance |-> balance + t.amount]

\* one row of the account: Sale and Receipt are money in, anything else money out
mode_row(t, party_name, balance) ==
    IF t.txn_type \in {"Sale", "Receipt"}
    THEN [date |-> t.txn_date, bill_no |-> t.bill_no, party |-> party_name,
          type |-> t.txn_type, debit |-> t.amount, credit |-> 0,
          balance |-> balance + t.amount]
    ELSE [date |-> t.txn_date, bill_no |-> t.bill_no, party |-> party_name,
          type |-> t.txn_type, debit |-> 0, credit |-> t.amount,
          balance |-> balance - t.amount]

RECURSIVE mode_loop(_, _, _, _, _, _)
mode_loop(txns, pts, rows, idx, balance, result) ==
    IF idx > Len(rows) THEN result
    ELSE LET t == txns[rows[idx]]
             row == mode_row(t, pts[t.party_id].name, balance)
         IN  mode_loop(txns, pts, rows, idx + 1, row.balance, Append(result, row))

get_mode_report(mode) ==
    \E ci \in BOOLEAN :
      \E rows \in Orderings(transactions, mode_filter(transactions, mode, ci)) :
        /\ response' = [op |-> "mode_report", status |-> "ok",
                        payload |-> mode_loop(transactions, parties, rows, 1, 0, <<>>),
                        key |-> <<mode, ci>>]
        /\ UNCHANGED <<store, report_cache, now, history, conc>>

\* get_type_report: the rows of one transaction type by date, each with the payment
\* mode and the amount; the total the loop adds up is not returned
type_filter(txns, txn_type) == {i \in DOMAIN txns : txns[i].txn_type = txn_type}

type_row(t, party_name) ==
    [date |-> t.txn_date, bill_no |-> t.bill_no, party |-> party_name,
     mode |-> t.payment_mode, amount |-> t.amount]

RECURSIVE type_loop(_, _, _, _, _, _)
type_loop(txns, pts, rows, idx, total, result) ==
    IF idx > Len(rows) THEN result
    ELSE LET t == txns[rows[idx]]
         IN  type_loop(txns, pts, rows, idx + 1, total + t.amount,
                       Append(result, type_row(t, pts[t.party_id].name)))

get_type_report(txn_type) ==
    \E rows \in Orderings(transactions, type_filter(transactions, txn_type)) :
        /\ response' = [op |-> "type_report", status |-> "ok",
                        payload |-> type_loop(transactions, parties, rows, 1, 0, <<>>),
                        key |-> <<txn_type>>]
        /\ UNCHANGED <<store, report_cache, now, history, conc>>

\* ------------------------------------------------------- outstanding
\* SUM(CASE WHEN t.txn_type = ... THEN t.amount ELSE 0 END) over a party's rows
party_sum(txns, party_id, txn_type) ==
    SumCase(txns, {i \in DOMAIN txns :
                     txns[i].party_id = party_id /\ txns[i].txn_type = txn_type})

outstanding_parties_any_type(pts) == DOMAIN pts

\* ... FROM parties p LEFT JOIN transactions t ... WHERE p.type = 'Credit Customer'
outstanding_parties(pts) == {q \in DOMAIN pts : pts[q].type = "Credit Customer"}

\* every arrangement of a set: the order of the groups of a GROUP BY is not fixed
Arrangements(S) ==
    {rows \in [1..Cardinality(S) -> S] :
        \A i, j \in DOMAIN rows : i # j => rows[i] # rows[j]}

RECURSIVE outstanding_loop(_, _, _, _, _, _)
outstanding_loop(txns, pts, rows, idx, outstanding, total_outstanding) ==
    IF idx > Len(rows)
    THEN [data |-> outstanding, total |-> total_outstanding]
    ELSE LET balance == party_sum(txns, rows[idx], "Sale")
                          - party_sum(txns, rows[idx], "Receipt")
         IN  IF balance > 0
             THEN outstanding_loop(txns, pts, rows, idx + 1,
                      Append(outstanding,
                             [party |-> pts[rows[idx]].name, balance |-> balance]),
                      total_outstanding + balance)
             ELSE outstanding_loop(txns, pts, rows, idx + 1, outstanding,
                                   total_outstanding)

get_outstanding_report ==
    \E rows \in Arrangements(outstanding_parties(parties)) :
        /\ response' = [op |-> "outstanding", status |-> "ok",
                        payload |-> outstanding_loop(transactions, parties, rows, 1,
                                                     <<>>, 0),
                        key |-> NoKey]
        /\ UNCHANGED <<store, report_cache, now, history, conc>>

\* ------------------------------------------------------ trial balance
\* get_account_balance: Sale and Receipt in, Expense out, of one mode or of the
\* bank class
get_account_balance(txns, mode, ci) ==
    LET ids == IF mode = "Bank"
               THEN {i \in DOMAIN txns : txns[i].payment_mode \in BankModes}
               ELSE mode_filter_exact(txns, mode, ci)
    IN  SumCase(txns, {i \in ids : txns[i].txn_type \in {"Sale", "Receipt"}})
          - SumCase(txns, {i \in ids : txns[i].txn_type = "Expense"})

\* SUM(CASE WHEN t.txn_type = plus THEN t.amount ELSE -t.amount END)
signed_sum(txns, plus) ==
    SumCase(txns, {i \in DOMAIN txns : txns[i].txn_type = plus})
      - SumCase(txns, {i \in DOMAIN txns : txns[i].txn_type # plus})

\* a net balance in the debit column if positive, sign-flipped in the credit
\* column if negative
balance_line(account, bal) ==
    [account |-> account,
     debit |-> IF bal > 0 THEN bal ELSE 0,
     credit |-> IF bal < 0 THEN -bal ELSE 0]

trial_balance(txns, ci) ==
    <<balance_line("Cash Account", get_account_balance(txns, "Cash", ci)),
      balance_line("Bank Account", get_account_balance(txns, "Bank", ci)),
      balance_line("UPI Account", get_account_balance(txns, "UPI", ci)),
      balance_line("Sundry Debtors", signed_sum(txns, "Sale")),
      balance_line("Sundry Creditors", signed_sum(txns, "Purchase")),
      [account |-> "Sales Account", debit |-> 0,
       credit |-> SumCase(txns, {i \in DOMAIN txns : txns[i].txn_type = "Sale"})],
      [account |-> "Expense Account",
       debit |-> SumCase(txns, {i \in DOMAIN txns : txns[i].txn_type = "Expense"}),
       credit |-> 0]>>

get_trial_balance ==
    \E ci \in BOOLEAN :
        /\ response' = [op |-> "trial_balance", status |-> "ok",
                        payload |-> trial_balance(transactions, ci), key |-> <<ci>>]
        /\ UNCHANGED <<store, report_cache, now, history, conc>>

\* ------------------------------------------- SpecBooks: ledger and accounts
\* The ledger and the account reports as functions of the store: any store of up to
\* MaxEntries transactions drawn from the entries below, then the
\* report requests.  add_transaction stores the amount it is given, so one entry
\* has a negative amount.
MaxEntries == 3
NameC == <<"C">>

BookParties ==
    [q \in 1..3 |->
        CASE q = 1 -> [name |-> NameA, normalized_name |-> normalize(NameA),
                       type |-> "Customer", credit_allowed |-> FALSE]
          [] q = 2 -> [name |-> NameB, normalized_name |-> normalize(NameB),
                       type |-> "Credit Customer", credit_allowed |-> TRUE]
          [] q = 3 -> [name |-> NameC, normalized_name |-> normalize(NameC),
                       type |-> "Credit Customer", credit_allowed |-> TRUE]]

\* (party_id, txn_type, payment_mode, amount)
BookEntries ==
    {<<2, "Sale", "Credit", 3>>, <<2, "Receipt", "Cash", 2>>, <<1, "Sale", "UPI", 2>>,
     <<1, "Expense", "Cash", 3>>, <<3, "Sale", "GPay", 2>>, <<3, "Purchase", "Bank", 2>>,
     <<3, "Sale", "Cash", -1>>}

\* the entries of party 2 fall on day 1 or day 2, the others on day 1
BookRows ==
    {TxnRow(de[1], "", de[2][1], de[2][2], de[2][3], de[2][4]) :
        de \in {x \in (1..2) \X BookEntries : x[1] = 1 \/ x[2][1] = 2}}

InitBooks ==
    /\ \E n \in 0..MaxEntries : transactions \in [1..n -> BookRows]
    /\ next_txn_id = Cardinality(DOMAIN transactions) + 1
    /\ parties = BookParties
    /\ next_party_id = 4
    /\ daily_cash = [d \in {} |-> 0]
    /\ app_settings = None
    /\ report_cache = EmptyCache
    /\ now = 0
    /\ response = Ok("none")
    /\ history = NoHistory
    /\ pc = [reader |-> "idle", writer |-> "idle"]
    /\ reader = Idle
    /\ writer = Idle
    /\ versions = NoVersions

\* ledger requests: by normalized name, by display name, for a party that has no
\* row; without bounds, from a date on, for one day, with a start that is no date
LedgerParties == {normalize(NameA), normalize(NameB), normalize(NameC), NameB, <<"z">>}
LedgerRanges == {<<None, None>>, <<DateStr(2), None>>, <<DateStr(1), DateStr(1)>>,
                 <<Garbage, None>>}
ModeSelectors == {"Cash", "Bank", "bank", "UPI", "GPay", "GPAY"}

LedgerRequest == \E party \in LedgerParties, rng \in LedgerRanges :
    get_ledger(party, rng[1], rng[2])
ModeReportRequest == \E mode \in ModeSelectors : get_mode_report(mode)
OutstandingRequest == get_outstanding_report
TrialBalanceRequest == get_trial_balance

NextBooks ==
    \/ LedgerRequest
    \/ ModeReportRequest
    \/ OutstandingRequest
    \/ TrialBalanceRequest

SpecBooks == InitBooks /\ [][NextBooks]_vars

\* ------------------------------------ SpecTypeReport: the report by type
\* The accounts selected by transaction type over the stores of SpecBooks.
TypeSelectors == {"Sale", "Receipt", "Expense", "Purchase"}

TypeReportRequest == \E txn_type \in TypeSelectors : get_type_report(txn_type)

NextTypeReport == TypeReportRequest

SpecTypeReport == InitBooks /\ [][NextTypeReport]_vars

\* ------------------------------------ SpecSeed: reports around a seed change
\* Stores of up to MaxTxns cash movements with any counts, on which the opening-cash
\* seed is set to another value between daily-summary requests: two reads of one
\* range with nothing but seed changes in between see stores that differ in the
\* seed only.
SeedRows ==
    {TxnRow(d, "", 1, k, "Cash", a) : d \in Dates, k \in {"Sale", "Expense"}, a \in Amounts}

InitSeed ==
    /\ \E n \in 0..MaxTxns : transactions \in [1..n -> SeedRows]
    /\ next_txn_id = Cardinality(DOMAIN transactions) + 1
    /\ parties = ReportParties
    /\ next_party_id = 3
    /\ \E D \in SUBSET Dates : daily_cash = [d \in D |-> CountOn(d)]
    /\ app_settings = None
    /\ report_cache = EmptyCache
    /\ now = 0
    /\ response = Ok("none")
    /\ history = NoHistory
    /\ pc = [reader |-> "idle", writer |-> "idle"]
    /\ reader = Idle
    /\ writer = Idle
    /\ versions = NoVersions

SeedChoices == SeedValues \cup {0}

SeedChange == \E v \in SeedChoices :
    /\ get_setting(app_settings, 0) # v
    /\ set_opening_cash(v)

SeedRead == \E a \in {WholeSpan, LaterDays} : get_daily_summary_report(a[1], a[2], a[3])

NextSeed == SeedChange \/ SeedRead

SpecSeed == InitSeed /\ [][NextSeed]_vars

\* ------------------------------------ SpecRanges: one store, several ranges
\* The daily summary of the whole span, of its last two days and of its last day,
\* asked of one store of up to MaxTxns cash movements with any counts and with or
\* without a seed; history keeps what each range returned.
RangeArgs == {WholeSpan, LaterDays, <<DateStr(MaxDate), DateStr(MaxDate), 30>>}

InitRanges ==
    /\ \E n \in 0..MaxTxns : transactions \in [1..n -> SeedRows]
    /\ next_txn_id = Cardinality(DOMAIN transactions) + 1
    /\ parties = ReportParties
    /\ next_party_id = 3
    /\ \E D \in SUBSET Dates : daily_cash = [d \in D |-> CountOn(d)]
    /\ app_settings \in {None} \cup {Some(v) : v \in SeedValues}
    /\ report_cache = EmptyCache
    /\ now = 0
    /\ response = Ok("none")
    /\ history = NoHistory
    /\ pc = [reader |-> "idle", writer |-> "idle"]
    /\ reader = Idle
    /\ writer = Idle
    /\ versions = NoVersions

RangeRead == \E a \in RangeArgs : get_daily_summary_report(a[1], a[2], a[3])

NextRanges == RangeRead

SpecRanges == InitRanges /\ [][NextRanges]_vars

\* ------------------------------------ SpecNames: record, then ask the ledger
\* The parties of SpecBooks without transactions: transactions are recorded under a
\* party's name as displayed, as normalized or under an unknown name, and the
\* ledger is asked for under the same names.
RequestNames == {NameA, normalize(NameA), NameB, normalize(NameB), <<"z">>}

InitNames ==
    /\ transactions = [i \in {} |-> 0]
    /\ next_txn_id = 1
    /\ parties = BookParties
    /\ next_party_id = 4
    /\ daily_cash = [d \in {} |-> 0]
    /\ app_settings = None
    /\ report_cache = EmptyCache
    /\ now = 0
    /\ response = Ok("none")
    /\ history = NoHistory
    /\ pc = [reader |-> "idle", writer |-> "idle"]
    /\ reader = Idle
    /\ writer = Idle
    /\ versions = NoVersions

NameAdd == \E party \in RequestNames, d \in Dates, k \in {"Sale", "Receipt"}, a \in Amounts :
    /\ next_txn_id <= MaxTxns
    /\ add_transaction(d, "", party, k, "Cash", a)

NameLedger == \E party \in RequestNames : get_ledger(party, None, None)

NextNames == NameAdd \/ NameLedger

SpecNames == InitNames /\ [][NextNames]_vars

\* ------------------------------------------------ SpecParties: the parties
\* The party table from its creation on: parties are created, renamed and created
\* by the import, under names that differ in case and in space against underscore.
MaxParties == 3
PartyNames == {NameA, <<"a">>, NameB, <<"b", "_", "b">>}
PartyTypes == {"Customer", "Bank"}

PartyCreate == \E name \in PartyNames, ptype \in PartyTypes :
    /\ next_party_id <= MaxParties
    /\ create_party(name, ptype, FALSE)

PartyRename == \E old_name \in PartyNames, new_name \in PartyNames :
    rename_party(old_name, new_name)

PartyImport == \E name \in PartyNames, a \in Amounts :
    /\ next_party_id <= MaxParties
    /\ next_txn_id <= MaxInserts
    /\ import_transactions(1, "", name, "Sale", "Cash", a)

NextParties == PartyCreate \/ PartyRename \/ PartyImport

SpecParties == Init /\ [][NextParties]_vars

\* ------------------------------------ SpecUpstream: a failing query under a report
\* get_daily_summary_report statement by statement, on a connection whose queries
\* can fail, and the dashboard, whose eight aggregate queries can fail one at a
\* time.  No request writes to the store.

\* get_setting when its query raises: the bare except passes and the default is
\* returned
get_setting_failed(default_val) == default_val

reader_seed_failed ==
    /\ pc.reader = "seed"
    /\ reader_step([reader EXCEPT !.opening_seed = get_setting_failed(0)], "count")

\* a cursor.execute of the handler itself raises: nothing catches it, the request
\* ends in an error response and cache_set is not reached
reader_query_failed ==
    /\ pc.reader \in {"dates", "cash", "agg", "count", "moves"}
    /\ response' = Error("daily_summary")
    /\ reader' = Idle
    /\ pc' = [pc EXCEPT !.reader = "idle"]
    /\ UNCHANGED <<store, report_cache, now, history, writer, versions>>

DashboardQueries ==
    {"sales_today", "sales_month", "cash_in", "cash_out", "bank_in", "bank_out",
     "cust_sales", "cust_receipts"}

\* the rows each aggregate query of the dashboard sums (every day of the model lies
\* in the month of today)
dashboard_rows(txns, pts, q) ==
    {i \in DOMAIN txns :
        LET t == txns[i]
            customer == t.party_id \in DOMAIN pts /\ pts[t.party_id].type = "Customer"
        IN  CASE q = "sales_today" -> t.txn_type = "Sale" /\ t.txn_date = Today
              [] q = "sales_month" -> t.txn_type = "Sale"
              [] q = "cash_in" ->
                    t.payment_mode = "Cash" /\ t.txn_type \in {"Sale", "Receipt"}
              [] q = "cash_out" -> t.payment_mode = "Cash" /\ t.txn_type = "Expense"
              [] q = "bank_in" ->
                    t.payment_mode \in BankModes /\ t.txn_type \in {"Sale", "Receipt"}
              [] q = "bank_out" -> t.payment_mode \in BankModes /\ t.txn_type = "Expense"
              [] q = "cust_sales" -> customer /\ t.txn_type = "Sale"
              [] q = "cust_receipts" -> customer /\ t.txn_type = "Receipt"}

\* get_val: the query's value, 0.0 when it raises
get_val(txns, pts, q, failed) ==
    IF q \in failed THEN 0 ELSE SumCase(txns, dashboard_rows(txns, pts, q))

dashboard_metrics(txns, pts, failed) ==
    [sales_today |-> get_val(txns, pts, "sales_today", failed),
     sales_month |-> get_val(txns, pts, "sales_month", failed),
     cash_balance |-> get_val(txns, pts, "cash_in", failed)
                      - get_val(txns, pts, "cash_out", failed),
     bank_balance |-> get_val(txns, pts, "bank_in", failed)
                      - get_val(txns, pts, "bank_out", failed),
     receivables |-> get_val(txns, pts, "cust_sales", failed)
                     - get_val(txns, pts, "cust_receipts", failed)]

get_dashboard_metrics(failed) ==
    /\ pc.reader = "idle"
    /\ response' = [op |-> "dashboard", status |-> "ok",
                    payload |-> dashboard_metrics(transactions, parties, failed),
                    key |-> NoKey]
    /\ UNCHANGED <<store, report_cache, now, history, conc>>

\* The store of InitConc with a payment by UPI beside the cash sale, with or without
\* a seed and a count on day 1.
InitUpstream ==
    /\ transactions = [i \in {1, 2} |->
          IF i = 1 THEN TxnRow(1, "", 1, "Sale", "Cash", 2)
          ELSE TxnRow(2, "", 1, "Receipt", "UPI", 2)]
    /\ next_txn_id = 3
    /\ parties = [p \in {1} |-> [name |-> NameA, normalized_name |-> normalize(NameA),
                                type |-> "Customer", credit_allowed |-> FALSE]]
    /\ next_party_id = 2
    /\ daily_cash \in {[d \in {} |-> 0], [d \in {1} |-> CountOn(1)]}
    /\ app_settings \in {None} \cup {Some(v) : v \in SeedValues}
    /\ report_cache = EmptyCache
    /\ now = 0
    /\ response = Ok("none")
    /\ history = NoHistory
    /\ pc = [reader |-> "idle", writer |-> "idle"]
    /\ reader = Idle
    /\ writer = Idle
    /\ versions = NoVersions

DashboardRequest ==
    \E failed \in {{}} \cup {{q} : q \in DashboardQueries} : get_dashboard_metrics(failed)

NextUpstream ==
    \/ ReaderStart
    \/ reader_dates
    \/ reader_cash
    \/ reader_agg
    \/ reader_seed
    \/ reader_seed_failed
    \/ reader_count
    \/ reader_moves
    \/ reader_set
    \/ reader_query_failed
    \/ DashboardRequest

SpecUpstream == InitUpstream /\ [][NextUpstream]_vars

\* ------------------------------------ SpecRange: the date range of a request
\* resolve_date_range on the arguments a report request can carry: each bound
\* missing, unparseable or a date of the model, and the days of the query string
\* negative, zero, one, two and the default 30.
DateArgs == {None, Garbage} \cup {DateStr(d) : d \in Dates}
DaysArgs == {-1, 0, 1, 2, 30}

resolve_date_range_call(start, end, days) ==
    /\ response' = [op |-> "resolve_date_range", status |-> "ok",
                    payload |-> resolve_date_range(start, end, days),
                    key |-> <<start, end, days>>]
    /\ UNCHANGED <<store, report_cache, now, history, conc>>

ResolveDateRange == \E start \in DateArgs, end \in DateArgs, days \in DaysArgs :
    resolve_date_range_call(start, end, days)

NextRange == ResolveDateRange

SpecRange == Init /\ [][NextRange]_vars

\* ------------------------------------ SpecAmounts: the amounts that get stored
\* The requests that write an amount, from the fresh database on: add_transaction,
\* edit_transaction of the amount field and the import, with amounts above, at and
\* below zero, as the query string, the JSON body and the uploaded sheet can carry
\* them.
SignedAmounts == {-1, 0, 2}

AmountAdd == \E a \in SignedAmounts :
    /\ next_txn_id <= MaxTxns
    /\ add_transaction(1, "", NameA, "Sale", "Cash", a)

AmountEdit == \E i \in 1..MaxTxns, v \in {-1, EditedAmount} :
    edit_transaction(i, "amount", v)

AmountImport == \E name \in {NameA, NameB}, a \in SignedAmounts :
    /\ next_txn_id <= MaxTxns
    /\ next_party_id <= 2
    /\ import_transactions(2, "", name, "Sale", "Cash", a)

NextAmounts == CreateParty \/ AmountAdd \/ AmountEdit \/ AmountImport

SpecAmounts == Init /\ [][NextAmounts]_vars

\* ------------------------------------ SpecCreators: create_party side by side
\* create_party is a plain function, which the server runs on worker threads, on a
\* connection of its own with autocommit: two requests run side by side, each
\* statement a step.  Here pc[t] is the position of the request on thread t and
\* writer[t] its argument.
Threads == {1, 2}

creator_answer(t, status) ==
    /\ response' = [Resp("create_party", status) EXCEPT
                       !.key = <<writer[t].name, writer[t].ptype>>]
    /\ pc' = [pc EXCEPT ![t] = "idle"]

creator_begin(t, name, ptype, credit) ==
    /\ pc[t] = "idle"
    /\ writer' = [writer EXCEPT ![t] = [name |-> name, ptype |-> ptype, credit |-> credit]]
    /\ pc' = [pc EXCEPT ![t] = IF ptype = "Bank" THEN "count" ELSE "insert"]
    /\ UNCHANGED <<store, report_cache, now, response, history, reader, versions>>

\* SELECT COUNT(*) FROM parties WHERE type = 'Bank', and HTTP 400 if there is one
creator_count(t) ==
    /\ pc[t] = "count"
    /\ IF bank_count(parties) > 0
       THEN creator_answer(t, "error")
       ELSE /\ pc' = [pc EXCEPT ![t] = "insert"]
            /\ UNCHANGED response
    /\ UNCHANGED <<store, report_cache, now, history, reader, writer, versions>>

\* the INSERT, which the UNIQUE constraint on normalized_name may reject
creator_insert(t) ==
    LET req == writer[t]
        normalized == normalize(req.name)
        row == [name |-> req.name, normalized_name |-> normalized, type |-> req.ptype,
                credit_allowed |-> req.credit]
    IN  /\ pc[t] = "insert"
        /\ IF unique_violation(parties, normalized, 0)
           THEN /\ creator_answer(t, "error")
                /\ UNCHANGED <<parties, next_party_id>>
           ELSE /\ parties' = [p \in DOMAIN parties \cup {next_party_id} |->
                                  IF p = next_party_id THEN row ELSE parties[p]]
                /\ next_party_id' = next_party_id + 1
                /\ creator_answer(t, "ok")
        /\ UNCHANGED <<transactions, next_txn_id, daily_cash, app_settings,
                       report_cache, now, history, reader, writer, versions>>

InitCreators ==
    /\ transactions = [i \in {} |-> 0]
    /\ next_txn_id = 1
    /\ parties = [p \in {} |-> 0]
    /\ next_party_id = 1
    /\ daily_cash = [d \in {} |-> 0]
    /\ app_settings = None
    /\ report_cache = EmptyCache
    /\ now = 0
    /\ response = Ok("none")
    /\ history = NoHistory
    /\ pc = [t \in Threads |-> "idle"]
    /\ reader = Idle
    /\ writer = [t \in Threads |-> Idle]
    /\ versions = NoVersions

CreatorBegin == \E t \in Threads, name \in {NameA, NameB, NameC}, ptype \in PartyTypes :
    /\ next_party_id <= MaxParties
    /\ creator_begin(t, name, ptype, FALSE)

CreatorCount == \E t \in Threads : creator_count(t)

CreatorInsert == \E t \in Threads : creator_insert(t)

NextCreators == CreatorBegin \/ CreatorCount \/ CreatorInsert

SpecCreators == InitCreators /\ [][NextCreators]_vars

\* ------------------------------------------------ claims on the reports
\* What the claims speak of: the rows of the last daily-summary response, its range,
\* and the sums of the store's transactions as the claims word them.
IsSummary == response.op = "daily_summary"
Rows == response.payload
RangeOf(key) == <<key[3], key[4]>>
RowDates == {Rows[i].date : i \in DOMAIN Rows}
ActiveDates(rng) ==
    {d \in rng[1]..rng[2] :
        d \in DOMAIN daily_cash \/ \E i \in DOMAIN transactions : transactions[i].txn_date = d}
MovesCashIn(t) ==
    \/ t.payment_mode = "Cash" /\ (t.txn_type = "Sale" \/ t.txn_type = "Receipt")
    \/ t.payment_mode = "Credit" /\ t.txn_type = "Receipt"
MovesCashOut(t) == t.payment_mode = "Cash" /\ t.txn_type = "Expense"
TotalOf(ids) == SetSum([i \in ids |-> transactions[i].amount], ids)
CashInOf(ids) == TotalOf({i \in ids : MovesCashIn(transactions[i])})
CashOutOf(ids) == TotalOf({i \in ids : MovesCashOut(transactions[i])})
TxnsOn(d) == {i \in DOMAIN transactions : transactions[i].txn_date = d}
TxnsBefore(d) == {i \in DOMAIN transactions : transactions[i].txn_date < d}
\* row j is the row of the active date just before row i's
Precedes(j, i) ==
    /\ Rows[j].date < Rows[i].date
    /\ ~ \E k \in DOMAIN Rows : Rows[j].date < Rows[k].date /\ Rows[k].date < Rows[i].date

\* C1: every row but the earliest opens with the recorded count of the active date
\* just before it when that date has one, and with that date's closing_cash otherwise.
C1_CarryForward ==
    IsSummary =>
        \A i \in DOMAIN Rows : \A j \in DOMAIN Rows :
            Precedes(j, i) =>
                Rows[i].opening_cash =
                    IF Rows[j].date \in DOMAIN daily_cash THEN daily_cash[Rows[j].date]
                    ELSE Rows[j].closing_cash

\* three active dates; the middle one was counted short of its cash_needed and the
\* last one opens with that count, the first one was not counted and hands on its
\* closing_cash
C1_Witness ==
    /\ IsSummary /\ Len(Rows) = 3
    /\ Rows[3].cash_in_hand = None
    /\ Rows[2].opening_cash = Rows[3].closing_cash
    /\ IsSome(Rows[2].cash_in_hand)
    /\ Val(Rows[2].cash_in_hand) < Rows[2].cash_needed
    /\ Rows[1].opening_cash = Val(Rows[2].cash_in_hand)

\* C2: a counted date shows the count as cash_in_hand and closing_cash and the count
\* less cash_needed as cash_short_excess, a count of 0 too; a date without a count
\* shows no cash_in_hand, closes at cash_needed and has no discrepancy.
C2_ShortExcess ==
    IsSummary =>
        \A i \in DOMAIN Rows :
            IF Rows[i].date \in DOMAIN daily_cash
            THEN /\ Rows[i].cash_in_hand = Some(daily_cash[Rows[i].date])
                 /\ Rows[i].closing_cash = daily_cash[Rows[i].date]
                 /\ Rows[i].cash_short_excess = daily_cash[Rows[i].date] - Rows[i].cash_needed
            ELSE /\ Rows[i].cash_in_hand = None
                 /\ Rows[i].closing_cash = Rows[i].cash_needed
                 /\ Rows[i].cash_short_excess = 0

\* a date counted at 0 against a cash_needed that is not 0, and a date with cash
\* coming in and no count
C2_Witness ==
    /\ IsSummary
    /\ \E i \in DOMAIN Rows :
          Rows[i].cash_in_hand = Some(0) /\ Rows[i].cash_short_excess < 0
    /\ \E i \in DOMAIN Rows :
          Rows[i].cash_in_hand = None /\ Rows[i].cash_in > 0

\* C3: cash_needed is opening_cash plus the date's cash-in less its cash expenses,
\* cash-in being the Cash sales and receipts and the Credit receipts of the date and
\* cash expense its Cash expenses.
C3_CashNeeded ==
    IsSummary =>
        \A i \in DOMAIN Rows :
            /\ Rows[i].cash_in = CashInOf(TxnsOn(Rows[i].date))
            /\ Rows[i].cash_expense = CashOutOf(TxnsOn(Rows[i].date))
            /\ Rows[i].cash_needed =
                    Rows[i].opening_cash + Rows[i].cash_in - Rows[i].cash_expense

\* a date with a Credit receipt and a Cash expense, and a date whose only
\* transaction moves no cash
C3_Witness ==
    /\ IsSummary
    /\ \E i \in DOMAIN Rows :
          /\ Rows[i].cash_in > 0 /\ Rows[i].cash_expense > 0
          /\ \E t \in TxnsOn(Rows[i].date) :
                transactions[t].payment_mode = "Credit" /\ transactions[t].txn_type = "Receipt"
    /\ \E i \in DOMAIN Rows :
          /\ TxnsOn(Rows[i].date) # {}
          /\ Rows[i].cash_needed = Rows[i].opening_cash

\* C4: the earliest row opens with the most recent count dated before start if there
\* is one, and with the seed plus the cash-in less the cash-out before start if not.
C4_OpeningOfRange ==
    IsSummary /\ Rows # <<>> =>
        LET start == RangeOf(response.key)[1]
            counted == {d \in DOMAIN daily_cash : d < start}
            seed == IF IsSome(app_settings) THEN Val(app_settings) ELSE 0
        IN  \A i \in DOMAIN Rows :
                Rows[i].date = Min(RowDates) =>
                    Rows[i].opening_cash =
                        IF counted # {} THEN daily_cash[Max(counted)]
                        ELSE seed + CashInOf(TxnsBefore(start)) - CashOutOf(TxnsBefore(start))

\* two counts lie before start and the later of them is not the larger
C4_Witness ==
    /\ IsSummary /\ Rows # <<>>
    /\ LET counted == {d \in DOMAIN daily_cash : d < RangeOf(response.key)[1]}
       IN  /\ Cardinality(counted) = 2
           /\ daily_cash[Max(counted)] < daily_cash[Min(counted)]
           /\ TxnsBefore(RangeOf(response.key)[1]) # {}

\* C5: one row for each date of the range that has a transaction or a count, no
\* other row, no row at all when there is no such date, latest date first.
C5_ActiveDates ==
    IsSummary =>
        /\ RowDates = ActiveDates(RangeOf(response.key))
        /\ Len(Rows) = Cardinality(ActiveDates(RangeOf(response.key)))
        /\ \A i \in DOMAIN Rows : \A j \in DOMAIN Rows :
              i < j => Rows[i].date > Rows[j].date

\* a counted date without transactions has its row, behind a later date's row, and
\* a date outside the range has none
C5_Witness ==
    /\ IsSummary /\ Len(Rows) = 2
    /\ TxnsOn(Rows[2].date) = {} /\ Rows[2].cash_in = 0 /\ Rows[2].cash_expense = 0
    /\ TxnsOn(Rows[1].date) # {}
    /\ \E d \in DOMAIN daily_cash : d \notin RowDates

\* C6: what get_short_excess_report returns is, row for row, what
\* get_daily_summary_report returns for the same range and store, cut to the seven
\* fields of the short/excess report.
C6_Projection ==
    response.op = "short_excess" =>
        LET rng == RangeOf(response.key)
            data == daily_summary_call(DateStr(rng[1]), DateStr(rng[2]), 30).payload
        IN  /\ Len(Rows) = Len(data)
            /\ \A i \in DOMAIN Rows :
                  /\ DOMAIN Rows[i] = {"date", "opening_cash", "cash_in", "cash_expense",
                                       "cash_needed", "cash_in_hand", "cash_short_excess"}
                  /\ Rows[i].date = data[i].date
                  /\ Rows[i].opening_cash = data[i].opening_cash
                  /\ Rows[i].cash_in = data[i].cash_in
                  /\ Rows[i].cash_expense = data[i].cash_expense
                  /\ Rows[i].cash_needed = data[i].cash_needed
                  /\ Rows[i].cash_in_hand = data[i].cash_in_hand
                  /\ Rows[i].cash_short_excess = data[i].cash_short_excess

\* a short/excess report of three rows with a shortage and an uncounted date
C6_Witness ==
    /\ response.op = "short_excess" /\ Len(Rows) = 3
    /\ \E i \in DOMAIN Rows : Rows[i].cash_short_excess < 0
    /\ \E i \in DOMAIN Rows : Rows[i].cash_in_hand = None

\* ------------------------------------------------ claims on the cache
IsRead == response.op \in {"daily_summary", "short_excess"}
Recomputed(key) ==
    compute_daily_summary(transactions, parties, daily_cash, app_settings, RangeOf(key))

\* C7: of two consecutive daily-summary reads of one resolved range, the second
\* returns the payload of the first if nothing wrote to the store in between; if a
\* successful add, edit, delete, count upsert or seed change came in between, the
\* second misses the cache, returns the report recomputed from the store and stores
\* an entry computed at the time of the second read, not before the first one's.
C7_CacheIdempotence ==
    (IsSummary /\ IsSome(response.prev)) =>
        LET first == Val(response.prev)
        IN  /\ ~ first.changed => response.payload = first.payload
            /\ first.mutated =>
                 /\ ~ response.hit
                 /\ response.payload = Recomputed(response.key)
                 /\ history[response.key].computed_at = response.at
                 /\ history[response.key].computed_at >= first.computed_at

\* C8: a request is served from the cache only if cache_get found an entry under its
\* key that was at most REPORT_CACHE_TTL_SEC old, and then with that entry's payload;
\* cache_get on an entry older than that reports a miss and leaves a cache without
\* the entry, and on a key without entry reports a miss.
C8_CacheGet ==
    /\ IsRead =>
         /\ response.hit =>
              /\ IsSome(response.cached)
              /\ response.at - Val(response.cached).ts <= REPORT_CACHE_TTL_SEC
              /\ report_cache[response.key] = Val(response.cached)
              /\ IsSummary => response.payload = Val(response.cached).data
         /\ (IsSome(response.cached)
               /\ response.at - Val(response.cached).ts > REPORT_CACHE_TTL_SEC) =>
              /\ ~ response.hit
              /\ report_cache[response.key].ts = response.at
    /\ \A k \in DOMAIN report_cache :
         LET got == cache_get(report_cache, k, now)
         IN  IF now - report_cache[k].ts > REPORT_CACHE_TTL_SEC
             THEN got.data = None /\ k \notin DOMAIN got.cache
             ELSE got.data = Some(report_cache[k].data) /\ got.cache = report_cache
    /\ \A a \in ReportArgs :
         LET k == CacheKey(resolve_date_range(a[1], a[2], a[3]))
         IN  k \notin DOMAIN report_cache =>
                 cache_get(report_cache, k, now) = [data |-> None, cache |-> report_cache]

\* an entry of TTL + 1 seconds was refused
C8_Witness ==
    /\ IsSummary
    /\ ~ response.hit
    /\ IsSome(response.cached)
    /\ response.at - Val(response.cached).ts = REPORT_CACHE_TTL_SEC + 1

\* C9: a mutation that has returned success wrote to the store, then cleared every
\* entry of the cache, and cleared nothing before its write.
C9_ClearAfterWrite ==
    (writer # Idle /\ writer.status = "ok") =>
        /\ writer.req.op \in {"add_transaction", "edit_transaction", "delete_transaction",
                              "set_cash_in_hand", "set_opening_cash"}
        /\ writer.wrote
        /\ writer.cleared_after
        /\ writer.emptied
        /\ ~ writer.cleared_before

\* a count upsert returned success after dropping a cached report
C9_Witness ==
    /\ writer # Idle
    /\ writer.status = "ok"
    /\ writer.req.op = "set_cash_in_hand"
    /\ writer.dropped
    /\ response = Ok("set_cash_in_hand")

\* C10: the cache holds no entry computed from a store older than the last write
\* whose mutation has returned.
C10_InvalidationNotLost ==
    \A k \in DOMAIN report_cache : versions.origin[k] >= versions.returned

\* ------------------------------------------------ claims on the ledger
IsLedger == response.op = "ledger"
\* the parties a ledger request names, by the name as given or as normalized
LedgerOwners ==
    party_by_normalized(parties, response.key[1])
      \cup party_by_normalized(parties, normalize(response.key[1]))
OwnedTxns == {i \in DOMAIN transactions : transactions[i].party_id \in LedgerOwners}
\* the transactions of the party within the requested bounds
LedgerSlice ==
    {i \in OwnedTxns :
        /\ response.key[2] # None => transactions[i].txn_date >= response.key[2][2]
        /\ response.key[3] # None => transactions[i].txn_date <= response.key[3][2]}
SaleSigned(txn_type, amount) == IF txn_type = "Sale" THEN amount ELSE -amount

\* C11: a ledger request for a party that has no row, or that has a row and no
\* transactions, is answered, whatever the date bounds, with the empty list and
\* not with an error.
C11_EmptyLedger ==
    (IsLedger /\ (LedgerOwners = {} \/ OwnedTxns = {})) =>
        response.status = "ok" /\ response.payload = <<>>

\* a party with a row and no transactions, in a store that has transactions, asked
\* with a start that is no date
C11_Witness ==
    /\ IsLedger
    /\ LedgerOwners # {}
    /\ OwnedTxns = {}
    /\ transactions # <<>>
    /\ response.key[2] = Garbage
    /\ response.payload = <<>>

\* C12: in a ledger, the first balance is +amount for a Sale and -amount for any
\* other type, every later balance is the one before it plus the amount for a Sale
\* and minus the amount for any other type, and the last balance is the Sale
\* amounts minus all other amounts of the party's transactions within the bounds.
C12_LedgerBalance ==
    IsLedger =>
        LET ledger == response.payload
        IN  /\ \A k \in DOMAIN ledger :
                 ledger[k].balance =
                     (IF k = 1 THEN 0 ELSE ledger[k - 1].balance)
                       + SaleSigned(ledger[k].type, ledger[k].amount)
            /\ ledger # <<>> =>
                 /\ {ledger[k].id : k \in DOMAIN ledger} = LedgerSlice
                 /\ Len(ledger) = Cardinality(LedgerSlice)
                 /\ ledger[Len(ledger)].balance =
                      SetSum([i \in LedgerSlice |->
                                 SaleSigned(transactions[i].txn_type,
                                            transactions[i].amount)], LedgerSlice)

\* a ledger of three rows that starts with a receipt and has a sale after it
C12_Witness ==
    /\ IsLedger
    /\ Len(response.payload) = 3
    /\ response.payload[1].type = "Receipt"
    /\ response.payload[1].balance < 0
    /\ \E k \in 2..3 : response.payload[k].type = "Sale"

\* ------------------------------------------------ claims on the accounts
IsModeReport == response.op = "mode_report"
SeqSum(rows, field) == SetSum([k \in DOMAIN rows |-> rows[k][field]], DOMAIN rows)
BankClassTxns == {i \in DOMAIN transactions : transactions[i].payment_mode \in BankModes}

\* C13: every row of a payment-mode report has debit = amount and credit = 0 for a
\* Sale or Receipt and debit = 0 and credit = amount otherwise, its balance is the
\* balance of the row before it (0 before the first) + debit - credit, and the
\* last balance is the debits minus the credits of the whole filtered set.
C13_ModeBalance ==
    IsModeReport =>
        LET rows == response.payload
            picked == mode_filter(transactions, response.key[1], response.key[2])
            money_in == {i \in picked : transactions[i].txn_type \in {"Sale", "Receipt"}}
        IN  /\ Len(rows) = Cardinality(picked)
            /\ \A k \in DOMAIN rows :
                 /\ rows[k].type \in {"Sale", "Receipt"} => rows[k].credit = 0
                 /\ rows[k].type \notin {"Sale", "Receipt"} => rows[k].debit = 0
                 /\ rows[k].balance =
                      (IF k = 1 THEN 0 ELSE rows[k - 1].balance)
                        + rows[k].debit - rows[k].credit
            /\ SeqSum(rows, "debit") = TotalOf(money_in)
            /\ SeqSum(rows, "credit") = TotalOf(picked \ money_in)
            /\ rows # <<>> =>
                 rows[Len(rows)].balance = TotalOf(money_in) - TotalOf(picked \ money_in)

\* a cash account of three rows with money in and money out
C13_Witness ==
    /\ IsModeReport
    /\ response.key[1] = "Cash"
    /\ Len(response.payload) = 3
    /\ \E k \in 1..3 : response.payload[k].debit > 0
    /\ \E k \in 1..3 : response.payload[k].credit > 0

\* C14: a payment-mode report asked for with any bank-class selector has all the
\* transactions of a bank-class payment mode, so as many rows as there are such
\* transactions and their debits and credits.
C14_BankAliases ==
    (IsModeReport /\ response.key[1] \in BankModes) =>
        LET money_in == {i \in BankClassTxns :
                            transactions[i].txn_type \in {"Sale", "Receipt"}}
        IN  /\ Len(response.payload) = Cardinality(BankClassTxns)
            /\ SeqSum(response.payload, "debit") = TotalOf(money_in)
            /\ SeqSum(response.payload, "credit") = TotalOf(BankClassTxns \ money_in)

IsOutstanding == response.op = "outstanding"
Receivable(q) ==
    TotalOf({i \in DOMAIN transactions :
               transactions[i].party_id = q /\ transactions[i].txn_type = "Sale"})
      - TotalOf({i \in DOMAIN transactions :
               transactions[i].party_id = q /\ transactions[i].txn_type = "Receipt"})
Debtors == {q \in DOMAIN parties : parties[q].type = "Credit Customer" /\ Receivable(q) > 0}

\* C15: the outstanding report lists the Credit Customer parties whose Sale amounts
\* exceed their Receipt amounts, each once and with that difference, no other
\* party, and a total that is the sum of the listed balances.
C15_Outstanding ==
    IsOutstanding =>
        LET data == response.payload.data
        IN  /\ {data[k].party : k \in DOMAIN data} = {parties[q].name : q \in Debtors}
            /\ Len(data) = Cardinality(Debtors)
            /\ \A k \in DOMAIN data : \A q \in Debtors :
                 parties[q].name = data[k].party => data[k].balance = Receivable(q)
            /\ response.payload.total = SeqSum(data, "balance")

\* one credit customer is listed, the other is not for a balance below zero, and a
\* customer of another type with a positive balance is not listed either
C15_Witness ==
    /\ IsOutstanding
    /\ Len(response.payload.data) = 1
    /\ \E q \in DOMAIN parties : parties[q].type = "Credit Customer" /\ Receivable(q) < 0
    /\ \E q \in DOMAIN parties : parties[q].type = "Customer" /\ Receivable(q) > 0

IsTrialBalance == response.op = "trial_balance"
ModeNet(modes) ==
    TotalOf({i \in DOMAIN transactions :
               /\ transactions[i].payment_mode \in modes
               /\ transactions[i].txn_type \in {"Sale", "Receipt"}})
      - TotalOf({i \in DOMAIN transactions :
               /\ transactions[i].payment_mode \in modes
               /\ transactions[i].txn_type = "Expense"})
TypeNet(plus) ==
    TotalOf({i \in DOMAIN transactions : transactions[i].txn_type = plus})
      - TotalOf({i \in DOMAIN transactions : transactions[i].txn_type # plus})

\* C16: every line of the trial balance has debit >= 0 and credit >= 0 and at most
\* one of them non-zero, and the Cash, Bank, UPI, Sundry Debtors and Sundry
\* Creditors lines have debit - credit equal to their net balance.
C16_TrialBalance ==
    IsTrialBalance =>
        LET lines == response.payload
            net == <<ModeNet({"Cash"}), ModeNet(BankModes), ModeNet({"UPI"}),
                     TypeNet("Sale"), TypeNet("Purchase")>>
        IN  /\ \A k \in DOMAIN lines :
                 /\ lines[k].debit >= 0
                 /\ lines[k].credit >= 0
                 /\ lines[k].debit = 0 \/ lines[k].credit = 0
            /\ \A k \in 1..5 : lines[k].debit - lines[k].credit = net[k]

\* ------------------------------------------------ claims on the parties
Banks == {q \in DOMAIN parties : parties[q].type = "Bank"}

\* C17: a create_party of type Bank, when a party of type Bank exists, fails and
\* leaves the party table as it was.
C17_SecondBank ==
    [][(response'.op = "create_party" /\ response'.key[2] = "Bank" /\ Banks # {}) =>
          /\ response'.status = "error"
          /\ parties' = parties
          /\ next_party_id' = next_party_id]_vars

\* a second Bank was refused while the table had one Bank and another party
C17_Witness ==
    /\ response.op = "create_party"
    /\ response.key[2] = "Bank"
    /\ response.status = "error"
    /\ Cardinality(Banks) = 1
    /\ Cardinality(DOMAIN parties) >= 2

NamesNormalized ==
    /\ \A q \in DOMAIN parties : parties[q].normalized_name = normalize(parties[q].name)
    /\ \A q, r \in DOMAIN parties :
         q # r => parties[q].normalized_name # parties[r].normalized_name

\* the parties other than the one a rename is about that have the normalized name
TakenBy(norm, except) == {q \in DOMAIN parties \ except : parties[q].normalized_name = norm}

\* C18: every party's normalized_name is its name lower-cased with spaces replaced
\* by underscores and no two parties share one; a create whose normalized name a
\* party has, and a rename whose new normalized name another party has, is rejected
\* and leaves every party as it was.
C18_NormalizedNames ==
    /\ []NamesNormalized
    /\ [][/\ (/\ response'.op = "create_party"
              /\ TakenBy(normalize(response'.key[1]), {}) # {}) =>
                 (response'.status = "error" /\ parties' = parties)
          /\ (/\ response'.op = "rename_party"
              /\ TakenBy(normalize(response'.key[2]),
                         party_by_normalized(parties, normalize(response'.key[1]))) # {}) =>
                 (response'.status = "error" /\ parties' = parties)]_vars

\* a rename to a name that another party has in another spelling was refused
C18_Witness ==
    /\ response.op = "rename_party"
    /\ response.status = "error"
    /\ party_by_normalized(parties, normalize(response.key[1])) # {}
    /\ TakenBy(normalize(response.key[2]),
               party_by_normalized(parties, normalize(response.key[1]))) # {}
    /\ response.key[2] \notin {parties[q].name : q \in DOMAIN parties}

\* ------------------------------------------------ claims on rejected and failed mutations
Whitelist == {"txn_date", "bill_no", "txn_type", "payment_mode", "amount"}

\* C19: an edit of a field outside the whitelist, an edit or delete of a
\* transaction id that has no row, and an add for a party that has no row report a
\* failure and leave the transactions, the parties and the report cache as they
\* were (a step with now' = now is a request, any other the passing of time).
C19_RejectedMutation ==
    [][(/\ now' = now
        /\ \/ /\ response'.op = "edit_transaction"
              /\ (response'.key[2] \notin Whitelist
                    \/ response'.key[1] \notin DOMAIN transactions)
           \/ /\ response'.op = "delete_transaction"
              /\ response'.key[1] \notin DOMAIN transactions
           \/ /\ response'.op = "add_transaction"
              /\ ~ \E q \in DOMAIN parties :
                     parties[q].normalized_name = normalize(response'.key[1])) =>
          /\ response'.status = "error"
          /\ UNCHANGED <<transactions, next_txn_id, parties, next_party_id, report_cache>>]_vars

\* an edit of a field outside the whitelist was refused while the transaction
\* existed and the cache held a report
C19_Witness ==
    /\ response.op = "edit_transaction"
    /\ response.status = "error"
    /\ response.key[2] \notin Whitelist
    /\ response.key[1] \in DOMAIN transactions
    /\ report_cache # EmptyCache

\* C20: a mutation that a failing persistence step made report failure has neither
\* applied its write nor cleared the cache.
C20_FailureLeavesNoTrace ==
    (writer # Idle /\ writer.status = "failed") =>
        /\ ~ writer.wrote
        /\ ~ writer.cleared_before
        /\ ~ writer.cleared_after

\* ------------------------------------------------ claims on failing queries
\* C21: a report request under which a persistence query failed returns an error:
\* every success payload of the daily summary and of the dashboard is the one
\* computed from the store with the values the queries hold (no default in place of
\* the seed or of a metric), and so is every payload stored in the report cache.
C21_UpstreamFailure ==
    /\ (IsSummary /\ response.status = "ok") =>
          response.payload = Recomputed(response.key)
    /\ \A k \in DOMAIN report_cache : report_cache[k].data = Recomputed(k)
    /\ (response.op = "dashboard" /\ response.status = "ok") =>
          response.payload = dashboard_metrics(transactions, parties, {})

\* ------------------------------------------------ claims on the date range
IsResolved == response.op = "resolve_date_range"
Given(arg) == arg[1] = "Str"

\* C22: resolve_date_range returns a pair with start_date <= end_date: the two given
\* dates in ascending order; today for a missing or unparseable end; for a missing or
\* unparseable start the day max(days, 1) - 1 days before the end; with neither
\* bound, exactly max(days, 1) consecutive days ending today.
C22_DateRange ==
    IsResolved =>
        LET start == response.key[1]
            end == response.key[2]
            days == response.key[3]
            start_date == response.payload[1]
            end_date == response.payload[2]
            window == Max({days, 1})
        IN  /\ start_date <= end_date
            /\ (Given(start) /\ Given(end)) =>
                  /\ start_date = Min({start[2], end[2]})
                  /\ end_date = Max({start[2], end[2]})
            /\ (Given(start) /\ ~ Given(end)) =>
                  {start_date, end_date} = {start[2], Today}
            /\ (~ Given(start) /\ Given(end)) =>
                  /\ end_date = end[2]
                  /\ start_date = end[2] - (window - 1)
            /\ (~ Given(start) /\ ~ Given(end)) =>
                  /\ end_date = Today
                  /\ Cardinality(start_date..end_date) = window

\* a request with start after end, answered with the pair swapped
C22_Witness ==
    /\ IsResolved
    /\ Given(response.key[1]) /\ Given(response.key[2])
    /\ response.key[1][2] > response.key[2][2]
    /\ response.payload = <<response.key[2][2], response.key[1][2]>>

\* ------------------------------------------------ claims on the amounts
\* C23: after any sequence of add_transaction, edit_transaction and import, every
\* stored transaction has amount >= 0.
C23_NonNegativeAmounts == \A i \in DOMAIN transactions : transactions[i].amount >= 0

\* ------------------------------------------------ claims on concurrent creation
\* C24: in every reachable state, also with two create_party requests of type Bank
\* running side by side, at most one party has type Bank.
C24_OneBankEver == Cardinality(Banks) <= 1

\* ------------------------------------------------ claims on the ledger's order
\* C25: the rows get_ledger returns are in ascending date order and, among rows of
\* one date, in ascending transaction id order.
C25_LedgerOrder ==
    IsLedger =>
        \A i, j \in DOMAIN response.payload :
            i < j =>
                \/ response.payload[i].date < response.payload[j].date
                \/ /\ response.payload[i].date = response.payload[j].date
                   /\ response.payload[i].id < response.payload[j].id

\* ------------------------------------------------ claims on the report by type
IsTypeReport == response.op = "type_report"

\* C26: the report selected by transaction type has its rows in date order, and
\* each row carries a debit, a credit and a running balance: the amount as debit
\* for a Sale or Receipt and as credit otherwise, the balance that of the row
\* before it (0 before the first) + debit - credit.
C26_TypeReportColumns ==
    IsTypeReport =>
        LET rows == response.payload
            money_in == response.key[1] \in {"Sale", "Receipt"}
        IN  /\ \A j, k \in DOMAIN rows : j < k => rows[j].date <= rows[k].date
            /\ \A k \in DOMAIN rows :
                 /\ {"debit", "credit", "balance"} \subseteq DOMAIN rows[k]
                 /\ rows[k].debit = (IF money_in THEN rows[k].amount ELSE 0)
                 /\ rows[k].credit = (IF money_in THEN 0 ELSE rows[k].amount)
                 /\ rows[k].balance =
                      (IF k = 1 THEN 0 ELSE rows[k - 1].balance)
                        + rows[k].debit - rows[k].credit

\* ------------------------------------------------ claims on the seed
CountBefore(d) == \E c \in DOMAIN daily_cash : c < d

\* C27: if a count exists on a date before start, the daily summary of [start, end]
\* does not depend on the seed: a read of the range returns the payload the read
\* before it returned, whatever seed changes came in between (nothing else changes
\* the store here).
C27_SeedIndependence ==
    (IsSummary /\ IsSome(response.prev) /\ CountBefore(RangeOf(response.key)[1])) =>
        response.payload = Val(response.prev).payload

\* a report with rows, computed anew after a seed change, over a store with a count
\* before its start
C27_Witness ==
    /\ IsSummary
    /\ IsSome(response.prev)
    /\ Val(response.prev).mutated
    /\ ~ response.hit
    /\ CountBefore(RangeOf(response.key)[1])
    /\ response.payload # <<>>
    /\ response.payload = Val(response.prev).payload

\* ------------------------------------------------ claims on the requested range
\* the active dates of the store before day d
ActiveBefore(d) == ActiveDates(<<1, d - 1>>)

\* C28: for one store, the row of a date is the same in every requested range that
\* holds the date; and the first row of a range opens with what the last active
\* date before start hands on in a range that holds it: its count if it has one,
\* its closing_cash otherwise.
C28_RangeIndependence ==
    IsSummary =>
        \A k \in DOMAIN history :
            LET other == history[k].payload
                start == RangeOf(response.key)[1]
            IN  \A i \in DOMAIN Rows : \A j \in DOMAIN other :
                    /\ Rows[i].date = other[j].date => Rows[i] = other[j]
                    /\ (/\ Rows[i].date = Min(RowDates)
                        /\ ActiveBefore(start) # {}
                        /\ other[j].date = Max(ActiveBefore(start))) =>
                           Rows[i].opening_cash =
                               IF other[j].cash_in_hand # None
                               THEN Val(other[j].cash_in_hand)
                               ELSE other[j].closing_cash

\* ------------------------------------------------ claims on stale entries
\* C29: with the requests served one after the other, every payload a daily-summary
\* read returns from the cache is the payload that recomputing the report from the
\* current store gives.
C29_CachedIsCurrent ==
    (IsSummary /\ response.hit) => response.payload = Recomputed(response.key)

\* ------------------------------------------------ claims on the ledger's lookup
\* C30: get_ledger finds the party as add_transaction does: when add_transaction
\* has succeeded for a party name and get_ledger is then called with the same
\* name, the ledger returned has the transaction just recorded.
C30_LedgerByName ==
    [][(/\ response.op = "add_transaction"
        /\ response.status = "ok"
        /\ response'.op = "ledger"
        /\ response'.key = <<response.key[1], None, None>>) =>
            \E j \in DOMAIN response'.payload : response'.payload[j].id = next_txn_id - 1]_vars

====
